---- MODULE Spec2Model ----
(***************************************************************************)
(* A model of rpaas' ConsulManager (src/rpaas/consul_manager.py): the      *)
(* configuration state of a fleet of reverse proxies kept in a Consul      *)
(* key-value store; and of the team quota of Manager.new_instance          *)
(* (src/rpaas/manager.py, src/rpaas/storage.py).                           *)
(*                                                                         *)
(* Strings are sequences of tokens.  A token is one character ("/", ",",   *)
(* "_", "\n", " ", ":") or an indivisible piece of text ("rpaas", "swap",  *)
(* "s1", "## Begin custom RpaaS ").  Python's str methods (replace, strip, *)
(* split, join, startswith) are modelled on these sequences, so a key is   *)
(* a string with its "/" separators and a prefix of a key is a string      *)
(* prefix, as it is for Consul.                                            *)
(***************************************************************************)
EXTENDS Integers, Sequences, FiniteSets, TLC

VARIABLES
    kv,     \* the Consul KV store: a function from the keys present to values
    last,   \* the last completed call: its name, arguments, outcome, store before
    calls,  \* for each caller, the call it has in progress: its arguments, the
            \* KV request it is at, and what it has read so far
    db      \* the quota collection of the MongoDB storage: the document of each
            \* team that has one, with its used list and its quota

vars == <<kv, last, calls, db>>

-----------------------------------------------------------------------------
(* Python values *)

\* None, and the result of a kv.get of an absent key
None == <<>>

\* kv.get of a present key returns one item, a dict with its Key and Value
Some(v) == <<v>>

\* the tokens in their sort order (the order of their first characters in ASCII)
TokenOrder ==
    << "\n", "\r", " ", "## Begin custom RpaaS ", "## End custom RpaaS ",
       " block ##", ",", "-- Begin custom RpaaS ", "-- End custom RpaaS ",
       " lua module --", "/", "0", "1", "2", "3", "80", ":", "ROOT", "_",
       "___", "a", "acl", "app", "b", "blocks", "c", "cert", "d", "d1", "d2",
       "d3", "e", "h", "healthcheck", "http", "http://", "key", "locations",
       "lua_module", "m1", "m2", "rpaas", "rpaas_default_upstream", "s1", "s2",
       "s3", "server", "ssl", "status", "swap", "upstream", "worker", "x" >>

Rank(t) == CHOOSE i \in 1..Len(TokenOrder) : TokenOrder[i] = t

\* s < t for two strings, as Python and Consul order them
RECURSIVE StrLess(_, _)
StrLess(s, t) ==
    IF t = <<>> THEN FALSE
    ELSE IF s = <<>> THEN TRUE
    ELSE IF Head(s) = Head(t) THEN StrLess(Tail(s), Tail(t))
    ELSE Rank(Head(s)) < Rank(Head(t))

\* sorted(list): insertion sort of a list of strings
RECURSIVE Insert(_, _)
Insert(x, sortedList) ==
    IF sortedList = <<>> THEN <<x>>
    ELSE IF StrLess(Head(sortedList), x)
         THEN <<Head(sortedList)>> \o Insert(x, Tail(sortedList))
         ELSE <<x>> \o sortedList

RECURSIVE sorted(_)
sorted(list) ==
    IF list = <<>> THEN <<>> ELSE Insert(Head(list), sorted(Tail(list)))

\* str.startswith
startswith(s, p) ==
    /\ Len(p) <= Len(s)
    /\ SubSeq(s, 1, Len(p)) = p

\* str.replace(old, new): the occurrences of old, left to right, not overlapping
RECURSIVE replace(_, _, _)
replace(s, old, new) ==
    IF s = <<>> THEN <<>>
    ELSE IF startswith(s, old)
         THEN new \o replace(SubSeq(s, Len(old) + 1, Len(s)), old, new)
         ELSE <<Head(s)>> \o replace(Tail(s), old, new)

Whitespace == {" ", "\n", "\r"}

RECURSIVE lstrip(_)
lstrip(s) ==
    IF s # <<>> /\ Head(s) \in Whitespace THEN lstrip(Tail(s)) ELSE s

RECURSIVE rstrip(_)
rstrip(s) ==
    IF s # <<>> /\ s[Len(s)] \in Whitespace
    THEN rstrip(SubSeq(s, 1, Len(s) - 1)) ELSE s

\* str.strip()
strip(s) == rstrip(lstrip(s))

\* str.split(sep) for a one-character separator: a list of strings
RECURSIVE split(_, _)
split(s, sep) ==
    IF \A i \in 1..Len(s) : s[i] # sep THEN <<s>>
    ELSE LET i == CHOOSE j \in 1..Len(s) :
                    /\ s[j] = sep
                    /\ \A k \in 1..(j - 1) : s[k] # sep
         IN <<SubSeq(s, 1, i - 1)>> \o split(SubSeq(s, i + 1, Len(s)), sep)

\* sep.join(list)
RECURSIVE join(_, _)
join(sep, list) ==
    IF list = <<>> THEN <<>>
    ELSE IF Len(list) = 1 THEN list[1]
    ELSE list[1] \o sep \o join(sep, Tail(list))

\* set(list)
Range(list) == {list[i] : i \in 1..Len(list)}

\* the orders in which iterating a Python set can yield its elements: the
\* order depends on the hashes and on the insertion history, so every
\* order is possible
Orderings(S) ==
    {o \in [1..Cardinality(S) -> S] : \A x \in S : \E i \in DOMAIN o : o[i] = x}

-----------------------------------------------------------------------------
(* The Consul KV client *)

EmptyStore == <<>>

\* client.kv.put(key, value)
kv_put(store, key, value) ==
    [k \in (DOMAIN store) \cup {key} |-> IF k = key THEN value ELSE store[k]]

\* client.kv.delete(key)
kv_delete(store, key) ==
    [k \in (DOMAIN store) \ {key} |-> store[k]]

\* client.kv.delete(prefix, recurse=True): every key that starts with prefix
kv_delete_recurse(store, prefix) ==
    [k \in {x \in DOMAIN store : ~startswith(x, prefix)} |-> store[k]]

\* client.kv.get(key)[1]: None, or the item of the key
kv_get(store, key) ==
    IF key \in DOMAIN store
    THEN Some([Key |-> key, Value |-> store[key]])
    ELSE None

\* the strings of a set in increasing order
RECURSIVE SortedSeq(_)
SortedSeq(S) ==
    IF S = {} THEN <<>>
    ELSE LET m == CHOOSE x \in S : \A y \in S \ {x} : StrLess(x, y)
         IN <<m>> \o SortedSeq(S \ {m})

\* client.kv.get(prefix, recurse=True)[1]: None, or the items of the keys that
\* start with prefix, in the order of their keys
kv_get_recurse(store, prefix) ==
    LET keys == SortedSeq({k \in DOMAIN store : startswith(k, prefix)})
    IN [i \in 1..Len(keys) |-> [Key |-> keys[i], Value |-> store[keys[i]]]]

-----------------------------------------------------------------------------
(* Namespace addressing *)

\* config.get("RPAAS_SERVICE_NAME", "rpaas")
service_name == <<"rpaas">>

\* _key(instance_name, suffix): "<service>/<instance>" and, when there is a
\* suffix, "/<suffix>"
_key(instance_name, suffix) ==
    LET key == service_name \o <<"/">> \o instance_name
    IN IF suffix # <<>> THEN key \o <<"/">> \o suffix ELSE key

-----------------------------------------------------------------------------
(* The instances *)

NumInstances == 4

InstancePool == << <<"a">>, <<"b">>, <<"c">>, <<"d">>, <<"e">>, <<"a", "b">> >>

InstanceNames == {InstancePool[i] : i \in 1..NumInstances}

-----------------------------------------------------------------------------
(* Swap state machine *)

\* check_swap_state without its comparison of the two pointers with the two names
check_swap_state_no_compare(store, src_instance, dst_instance) ==
    LET src_instance_status == kv_get(store, _key(src_instance, <<"swap">>))
        dst_instance_status == kv_get(store, _key(dst_instance, <<"swap">>))
    IN IF src_instance_status = None /\ dst_instance_status = None THEN TRUE
       ELSE IF src_instance_status = None \/ dst_instance_status = None THEN FALSE
       ELSE TRUE

\* check_swap_state(src_instance, dst_instance): whether the two swap pointers
\* allow a swap
check_swap_state(store, src_instance, dst_instance) ==
    LET src_instance_status == kv_get(store, _key(src_instance, <<"swap">>))
        dst_instance_status == kv_get(store, _key(dst_instance, <<"swap">>))
    IN IF src_instance_status = None /\ dst_instance_status = None THEN TRUE
       ELSE IF src_instance_status = None \/ dst_instance_status = None THEN FALSE
       ELSE IF sorted(<<src_instance_status[1].Value, dst_instance_status[1].Value>>)
                 # sorted(<<src_instance, dst_instance>>)
            THEN FALSE
       ELSE TRUE

\* swap_instances writing the destination's pointer with the destination's name
swap_instances_wrong_value(store, src_instance, dst_instance) ==
    LET src_key == _key(src_instance, <<"swap">>)
        dst_key == _key(dst_instance, <<"swap">>)
        src_instance_value == kv_get(store, src_key)
        assign == kv_put(kv_put(store, src_key, dst_instance), dst_key, dst_instance)
    IN IF ~check_swap_state(store, src_instance, dst_instance)
       THEN [store |-> store, raised |-> TRUE]
       ELSE IF src_instance_value = None
       THEN [store |-> assign, raised |-> FALSE]
       ELSE IF src_instance_value[1].Value = dst_instance
       THEN [store |-> kv_delete(kv_delete(store, src_key), dst_key), raised |-> FALSE]
       ELSE [store |-> assign, raised |-> FALSE]

\* swap_instances deleting the source's pointer only when it toggles back
swap_instances_half_delete(store, src_instance, dst_instance) ==
    LET src_key == _key(src_instance, <<"swap">>)
        dst_key == _key(dst_instance, <<"swap">>)
        src_instance_value == kv_get(store, src_key)
        assign == kv_put(kv_put(store, src_key, dst_instance), dst_key, src_instance)
    IN IF ~check_swap_state(store, src_instance, dst_instance)
       THEN [store |-> store, raised |-> TRUE]
       ELSE IF src_instance_value = None
       THEN [store |-> assign, raised |-> FALSE]
       ELSE IF src_instance_value[1].Value = dst_instance
       THEN [store |-> kv_delete(store, src_key), raised |-> FALSE]
       ELSE [store |-> assign, raised |-> FALSE]

\* swap_instances without the check of the swap state
swap_instances_unchecked(store, src_instance, dst_instance) ==
    LET src_key == _key(src_instance, <<"swap">>)
        dst_key == _key(dst_instance, <<"swap">>)
        src_instance_value == kv_get(store, src_key)
        assign == kv_put(kv_put(store, src_key, dst_instance), dst_key, src_instance)
    IN IF src_instance_value = None
       THEN [store |-> assign, raised |-> FALSE]
       ELSE IF src_instance_value[1].Value = dst_instance
       THEN [store |-> kv_delete(kv_delete(store, src_key), dst_key), raised |-> FALSE]
       ELSE [store |-> assign, raised |-> FALSE]

\* swap_instances(src_instance, dst_instance): the store it leaves, and whether
\* it raised InstanceAlreadySwappedError
swap_instances(store, src_instance, dst_instance) ==
    LET src_key == _key(src_instance, <<"swap">>)
        dst_key == _key(dst_instance, <<"swap">>)
        src_instance_value == kv_get(store, src_key)
        assign == kv_put(kv_put(store, src_key, dst_instance), dst_key, src_instance)
    IN IF ~check_swap_state(store, src_instance, dst_instance)
       THEN [store |-> store, raised |-> TRUE]
       ELSE IF src_instance_value = None
       THEN [store |-> assign, raised |-> FALSE]
       ELSE IF src_instance_value[1].Value = dst_instance
       THEN [store |-> kv_delete(kv_delete(store, src_key), dst_key), raised |-> FALSE]
       ELSE [store |-> assign, raised |-> FALSE]

\* destroy_instance deleting every key that starts with "<service>/<instance>"
destroy_instance_no_slash(store, instance_name) ==
    kv_delete_recurse(store, _key(instance_name, <<>>))

\* write_healthcheck(instance_name)
write_healthcheck(store, instance_name) ==
    kv_put(store, _key(instance_name, <<"healthcheck">>), <<"true">>)

\* destroy_instance(instance_name): deletes every key under "<service>/<instance>/"
destroy_instance(store, instance_name) ==
    kv_delete_recurse(store, _key(instance_name \o <<"/">>, <<>>))

-----------------------------------------------------------------------------
(* Content framing *)

\* _set_header_footer(content, block_name, remove): the content between the two
\* sentinel lines of the block, or with remove the content without them
_set_header_footer(content, block_name, remove) ==
    LET begin_block == <<"## Begin custom RpaaS ">> \o block_name \o <<" block ##", "\n">>
        end_block == <<"## End custom RpaaS ">> \o block_name \o <<" block ##">>
    IN IF remove
       THEN strip(replace(replace(content, begin_block, <<>>), end_block, <<>>))
       ELSE IF content # <<>>
       THEN begin_block \o strip(content) \o <<"\n">> \o end_block
       ELSE begin_block \o end_block

\* _lua_module_escope with nothing between the two sentinel lines of an empty
\* module
_lua_module_escope_no_blank(lua_module_name, content) ==
    LET begin_escope == <<"-- Begin custom RpaaS ">> \o lua_module_name \o <<" lua module --">>
        end_escope == <<"-- End custom RpaaS ">> \o lua_module_name \o <<" lua module --">>
    IN IF content # <<>>
       THEN begin_escope \o <<"\n">> \o strip(content) \o <<"\n">> \o end_escope
       ELSE begin_escope \o <<"\n">> \o end_escope

\* _lua_module_escope(lua_module_name, content): "{0}\n{1}\n{2}" of the begin
\* sentinel, the stripped content ("" for no content) and the end sentinel
_lua_module_escope(lua_module_name, content) ==
    LET begin_escope == <<"-- Begin custom RpaaS ">> \o lua_module_name \o <<" lua module --">>
        end_escope == <<"-- End custom RpaaS ">> \o lua_module_name \o <<" lua module --">>
        content_stripped == IF content # <<>> THEN strip(content) ELSE <<>>
    IN begin_escope \o <<"\n">> \o content_stripped \o <<"\n">> \o end_escope

\* the contents framed: the strings of at most MaxContentLen characters, and
\* contents that hold a sentinel line of the label "http"
MaxContentLen == 3

ContentChars == {"x", " ", "\n"}

PlainContents == UNION {[1..n -> ContentChars] : n \in 0..MaxContentLen}

SentinelContents ==
    { <<"## Begin custom RpaaS ", "http", " block ##">>,
      <<"## End custom RpaaS ", "http", " block ##">>,
      <<"x", "\n", "## End custom RpaaS ", "http", " block ##", "\n", "x">> }

FramedContents == PlainContents \cup SentinelContents

\* the labels of the framed categories
BlockNames == { <<"http">>, <<"server">>, <<"upstream">> }

LuaNames == { <<"m1">>, <<"m2">> }

\* None, and contents with and without whitespace around them
LuaContents == { None, <<"x">>, <<" ", "x", " ", "\n">> }

-----------------------------------------------------------------------------
(* Upstream set management *)

\* the server argument of a call: None, a string or a list of strings
NoneArg == [type |-> "NoneType"]
StrArg(s) == [type |-> "str", str |-> s]
ListArg(l) == [type |-> "list", list |-> l]

\* not server
Falsy(server) ==
    \/ server.type = "NoneType"
    \/ server.type = "str" /\ server.str = <<>>
    \/ server.type = "list" /\ server.list = <<>>

\* host_from_destination(destination) of the misc module: the host and the port
\* of a URL or of a bare host[:port]; the port is None when there is none
host_from_destination(destination) ==
    LET address == IF destination # <<>> /\ Head(destination) = "http://"
                   THEN Tail(destination) ELSE destination
        parts == split(address, ":")
    IN <<parts[1], IF Len(parts) > 1 THEN parts[2] ELSE None>>

\* ":".join(map(str, filter(None, host_from_destination(server))))
normalize(server) ==
    join(<<":">>, SelectSeq(host_from_destination(server), LAMBDA part : part # None))

\* the normalized servers of a string or of a list
normalized_set(server) ==
    IF server.type = "list"
    THEN {normalize(server.list[idx]) : idx \in 1..Len(server.list)}
    ELSE {normalize(server.str)}

_upstream_key(instance_name, upstream_name) ==
    _key(instance_name, <<"upstream", "/">> \o upstream_name)

\* list_upstream splitting the stored value without removing its sentinel lines
list_upstream_framed(store, instance_name, upstream_name) ==
    LET servers == kv_get(store, _upstream_key(instance_name, upstream_name))
    IN IF servers # None
       THEN IF servers[1].Value = <<>> THEN {} ELSE Range(split(servers[1].Value, ","))
       ELSE {}

\* list_upstream splitting the unframed value also when it is empty
list_upstream_no_empty_check(store, instance_name, upstream_name) ==
    LET servers == kv_get(store, _upstream_key(instance_name, upstream_name))
    IN IF servers # None
       THEN Range(split(_set_header_footer(servers[1].Value, <<"upstream">>, TRUE), ","))
       ELSE {}

\* list_upstream(instance_name, upstream_name): the set of the servers stored
list_upstream(store, instance_name, upstream_name) ==
    LET servers == kv_get(store, _upstream_key(instance_name, upstream_name))
    IN IF servers # None
       THEN LET content == _set_header_footer(servers[1].Value, <<"upstream">>, TRUE)
            IN IF content = <<>> THEN {} ELSE Range(split(content, ","))
       ELSE {}

\* _save_upstream(instance_name, upstream_name, servers): the stores it can
\* leave, one for each order in which the set can be joined
_save_upstream(store, instance_name, upstream_name, servers) ==
    {kv_put(store, _upstream_key(instance_name, upstream_name),
            _set_header_footer(join(<<",">>, order), <<"upstream">>, FALSE)) :
        order \in Orderings(servers)}

\* _remove_upstream deleting the key
_remove_upstream_delete(store, instance_name, upstream_name) ==
    kv_delete(store, _upstream_key(instance_name, upstream_name))

\* _remove_upstream(instance_name, upstream_name)
_remove_upstream(store, instance_name, upstream_name) ==
    kv_put(store, _upstream_key(instance_name, upstream_name),
           _set_header_footer(None, <<"upstream">>, FALSE))

\* add_server_upstream adding the servers as they are given
add_server_upstream_raw(store, instance_name, upstream_name, server) ==
    IF Falsy(server)
    THEN {[store |-> store, raised |-> FALSE, requests |-> <<>>]}
    ELSE LET servers == list_upstream(store, instance_name, upstream_name)
                            \cup (IF server.type = "list" THEN Range(server.list)
                                  ELSE {server.str})
         IN {[store |-> saved, raised |-> FALSE, requests |-> <<"get", "put">>] :
                saved \in _save_upstream(store, instance_name, upstream_name, servers)}

\* add_server_upstream(instance_name, upstream_name, server): the outcomes it
\* can have, each the store left and the KV requests issued
add_server_upstream(store, instance_name, upstream_name, server) ==
    IF Falsy(server)
    THEN {[store |-> store, raised |-> FALSE, requests |-> <<>>]}
    ELSE LET servers == list_upstream(store, instance_name, upstream_name)
                            \cup normalized_set(server)
         IN {[store |-> saved, raised |-> FALSE, requests |-> <<"get", "put">>] :
                saved \in _save_upstream(store, instance_name, upstream_name, servers)}

\* remove_server_upstream(instance_name, upstream_name, server): the outcomes it
\* can have; host_from_destination(None) raises after the upstream was read
remove_server_upstream(store, instance_name, upstream_name, server) ==
    IF server.type = "NoneType"
    THEN {[store |-> store, raised |-> TRUE, requests |-> <<"get">>]}
    ELSE LET servers == list_upstream(store, instance_name, upstream_name)
                            \ normalized_set(server)
         IN IF Cardinality(servers) < 1
            THEN {[store |-> _remove_upstream(store, instance_name, upstream_name),
                   raised |-> FALSE, requests |-> <<"get", "put">>]}
            ELSE {[store |-> saved, raised |-> FALSE, requests |-> <<"get", "put">>] :
                    saved \in _save_upstream(store, instance_name, upstream_name, servers)}

\* the addresses the calls are made with
NumAddresses == 3

AddressPool ==
    << <<"http://", "s1", ":", "80">>, <<"s2">>, <<"http://", "s3">>,
       <<"s1", ":", "80">>, <<"s3", ":", "80">> >>

Addresses == {AddressPool[i] : i \in 1..NumAddresses}

\* the server arguments: None, "", an address, a list of one or two addresses
\* (the order of a list does not matter to set(server))
ServerArgs ==
    {NoneArg, StrArg(<<>>), ListArg(<<>>)}
    \cup {StrArg(AddressPool[i]) : i \in 1..NumAddresses}
    \cup {ListArg(<<AddressPool[i]>>) : i \in 1..NumAddresses}
    \cup {ListArg(<<AddressPool[i], AddressPool[j]>>) :
            i \in 1..NumAddresses, j \in 1..NumAddresses}

UpstreamInstances == {<<"a">>}

UpstreamNames == {<<"s1">>}

-----------------------------------------------------------------------------
(* ACL registry *)

\* _normalize_acl_src that only encodes: "_" for "/"
_normalize_acl_src_encode_only(src) ==
    IF src = <<>> THEN None ELSE replace(src, <<"/">>, <<"_">>)

\* _normalize_acl_src(src): "_" for "/" in a source that holds no "_", and "/"
\* for "_" in one that does
_normalize_acl_src(src) ==
    IF src = <<>> THEN None
    ELSE IF \E i \in 1..Len(src) : src[i] = "_" THEN replace(src, <<"_">>, <<"/">>)
    ELSE replace(src, <<"/">>, <<"_">>)

_acl_key(instance_name, src) ==
    _key(instance_name, IF src # <<>> THEN <<"acl", "/">> \o src ELSE <<"acl">>)

\* find_acl_network(instance_name, src): one entry for each key that starts
\* with the ACL key of src (of the instance, when src is None)
find_acl_network(store, instance_name, src) ==
    LET acls == kv_get_recurse(store, _acl_key(instance_name, _normalize_acl_src(src)))
    IN [i \in 1..Len(acls) |->
          LET parts == split(acls[i].Key, "/")
          IN [source |-> _normalize_acl_src(parts[Len(parts)]),
              destination |-> split(acls[i].Value, ",")]]

\* store_acl_network without the destinations already stored
store_acl_network_overwrite(store, instance_name, src, dst) ==
    {kv_put(store, _acl_key(instance_name, _normalize_acl_src(src)), dst)}

\* store_acl_network(instance_name, src, dst): the stores it can leave, one for
\* each order in which the set of destinations can be joined
store_acl_network(store, instance_name, src, dst) ==
    LET acls == find_acl_network(store, instance_name, src)
        orders == IF acls # <<>>
                  THEN Orderings(Range(acls[1].destination) \cup {dst})
                  ELSE {<<dst>>}
    IN {kv_put(store, _acl_key(instance_name, _normalize_acl_src(src)),
               join(<<",">>, order)) : order \in orders}

\* remove_acl_network(instance_name, src)
remove_acl_network(store, instance_name, src) ==
    kv_delete(store, _acl_key(instance_name, _normalize_acl_src(src)))

AclInstances == {<<"a">>}

\* the sources: the key of the second starts with the key of the first
NumSources == 2

SourcePool == << <<"1", "/", "3">>, <<"1", "/", "3", "2">>, <<"2", "/", "3">> >>

AclSources == {SourcePool[i] : i \in 1..NumSources}

Destinations == {<<"d1">>, <<"d2">>}

-----------------------------------------------------------------------------
(* Certificate store and node removal *)

\* os.path.join(a, b)
path_join(a, b) ==
    IF b # <<>> /\ Head(b) = "/" THEN b
    ELSE IF a = <<>> \/ a[Len(a)] = "/" THEN a \o b
    ELSE a \o <<"/">> \o b

\* _ssl_cert_path(instance_name, key_type, host_id): host_id is None or a string
_ssl_cert_path(instance_name, key_type, host_id) ==
    IF host_id # <<>>
    THEN path_join(_key(instance_name, <<"ssl", "/">> \o host_id), key_type)
    ELSE path_join(_key(instance_name, <<"ssl">>), key_type)

\* get_certificate raising only when the cert half is absent
get_certificate_cert_only(store, instance_name, host_id) ==
    LET cert == kv_get(store, _ssl_cert_path(instance_name, <<"cert">>, host_id))
        key == kv_get(store, _ssl_cert_path(instance_name, <<"key">>, host_id))
    IN IF cert = None
       THEN [raised |-> TRUE, result |-> None]
       ELSE [raised |-> FALSE,
             result |-> <<cert[1].Value, IF key = None THEN None ELSE key[1].Value>>]

\* get_certificate(instance_name, host_id): whether it raised
\* CertificateNotFoundError, and the (cert, key) it returned
get_certificate(store, instance_name, host_id) ==
    LET cert == kv_get(store, _ssl_cert_path(instance_name, <<"cert">>, host_id))
        key == kv_get(store, _ssl_cert_path(instance_name, <<"key">>, host_id))
    IN IF cert = None \/ key = None
       THEN [raised |-> TRUE, result |-> None]
       ELSE [raised |-> FALSE, result |-> <<cert[1].Value, key[1].Value>>]

\* set_certificate storing the data as they are given
set_certificate_raw(store, instance_name, cert_data, key_data, host_id) ==
    kv_put(kv_put(store, _ssl_cert_path(instance_name, <<"cert">>, host_id), cert_data),
           _ssl_cert_path(instance_name, <<"key">>, host_id), key_data)

\* set_certificate(instance_name, cert_data, key_data, host_id)
set_certificate(store, instance_name, cert_data, key_data, host_id) ==
    kv_put(kv_put(store, _ssl_cert_path(instance_name, <<"cert">>, host_id),
                  replace(cert_data, <<"\r", "\n">>, <<"\n">>)),
           _ssl_cert_path(instance_name, <<"key">>, host_id),
           replace(key_data, <<"\r", "\n">>, <<"\n">>))

\* delete_certificate deleting every key under the instance's ssl/
delete_certificate_recurse(store, instance_name) ==
    kv_delete_recurse(store, _ssl_cert_path(instance_name, <<>>, None))

\* delete_certificate(instance_name)
delete_certificate(store, instance_name) ==
    kv_delete(kv_delete(store, _ssl_cert_path(instance_name, <<"cert">>, None)),
              _ssl_cert_path(instance_name, <<"key">>, None))

\* _server_status_key(instance_name, server_name)
_server_status_key(instance_name, server_name) ==
    IF server_name # <<>>
    THEN _key(instance_name, <<"status", "/">> \o server_name)
    ELSE _key(instance_name, <<"status">>)

\* the requests of remove_node with the request to the agent first
remove_node_requests_leave_first ==
    << "agent.force_leave", "kv.delete status", "kv.delete ssl" >>

\* the requests remove_node issues, in the order of its statements
remove_node_requests ==
    << "kv.delete status", "kv.delete ssl", "agent.force_leave" >>

\* remove_node deleting every key that starts with the path of the host id
remove_node_prefix(store, instance_name, server_name, host_id) ==
    kv_delete_recurse(kv_delete(store, _server_status_key(instance_name, server_name)),
                      _key(instance_name, <<"ssl", "/">> \o host_id))

\* remove_node(instance_name, server_name, host_id): the store it leaves; it
\* then asks the agent to force_leave(server_name)
remove_node(store, instance_name, server_name, host_id) ==
    kv_delete_recurse(kv_delete(store, _server_status_key(instance_name, server_name)),
                      _ssl_cert_path(instance_name, <<>>, host_id))

\* the certificate scopes the calls address: an instance and a host id or None;
\* the second host id starts with the first
CertScopes ==
    { << <<"a">>, None >>, << <<"a">>, <<"h">> >>, << <<"a">>, <<"h", "2">> >>,
      << <<"b">>, None >> }

CertInstances == {scope[1] : scope \in CertScopes}

HostIds == {scope[2] : scope \in CertScopes}

CertData == { <<"x">>, <<"x", "\r", "\n">> }

KeyData == { <<"key">> }

\* the servers of instance a: the name of the second starts with the first
NodeInstances == {<<"a">>}

ServerNames == { <<"s1">>, <<"s1", "2">> }

\* the scopes and the texts of the calls that store texts with line endings
TextScopes == { << <<"a">>, None >>, << <<"a">>, <<"h">> >> }

CertTexts ==
    { <<"x">>, <<"\r", "\n">>, <<"x", "\r", "\n", "x", "\r", "\n">>,
      <<"\r", "\r", "\n">>, <<"\n", "\r">> }

-----------------------------------------------------------------------------
(* Locations *)

\* _location_key(instance_name, path)
_location_key(instance_name, path) ==
    LET location_key == IF path # <<"/">> THEN replace(path, <<"/">>, <<"___">>)
                        ELSE <<"ROOT">>
    IN _key(instance_name, <<"locations", "/">> \o location_key)

\* config_manager.generate_host_config(path, destination, upstream, router_mode,
\* https_only) of the nginx module: the text of a location, a template chosen
\* by the two modes and filled with the path, the destination and the upstream
generate_host_config(path, destination, upstream, router_mode, https_only) ==
    << IF router_mode THEN "NGINX_LOCATION_TEMPLATE_ROUTER"
       ELSE "NGINX_LOCATION_TEMPLATE_DEFAULT",
       IF https_only THEN " https_only" ELSE "", " path=" >> \o path
        \o <<" host=">> \o destination \o <<" upstream=">> \o upstream

\* write_location storing the content as it is given
write_location_unstripped(store, instance_name, path, destination, content, router_mode, bind_mode, https_only) ==
    IF content # <<>>
    THEN {[store |-> kv_put(store, _location_key(instance_name, path), content),
           raised |-> FALSE]}
    ELSE IF destination = None THEN {[store |-> store, raised |-> TRUE]}
    ELSE LET host == host_from_destination(destination)[1]
             upstream == IF bind_mode THEN <<"rpaas_default_upstream">> ELSE host
             generated == generate_host_config(path, destination, upstream,
                                               router_mode, https_only)
             upstream_server == IF router_mode THEN NoneArg ELSE StrArg(host)
         IN {[store |-> kv_put(r.store, _location_key(instance_name, path), generated),
              raised |-> FALSE] :
                r \in add_server_upstream(store, instance_name, upstream, upstream_server)}

\* write_location taking no notice of the bind mode
write_location_no_bind(store, instance_name, path, destination, content, router_mode, bind_mode, https_only) ==
    IF content # <<>>
    THEN {[store |-> kv_put(store, _location_key(instance_name, path), strip(content)),
           raised |-> FALSE]}
    ELSE IF destination = None THEN {[store |-> store, raised |-> TRUE]}
    ELSE LET host == host_from_destination(destination)[1]
             upstream == host
             generated == generate_host_config(path, destination, upstream,
                                               router_mode, https_only)
             upstream_server == IF router_mode THEN NoneArg ELSE StrArg(host)
         IN {[store |-> kv_put(r.store, _location_key(instance_name, path), generated),
              raised |-> FALSE] :
                r \in add_server_upstream(store, instance_name, upstream, upstream_server)}

\* write_location(instance_name, path, destination, content, router_mode,
\* bind_mode, https_only): the outcomes it can have; content and destination
\* are None or a string, and host_from_destination(None) raises
write_location(store, instance_name, path, destination, content, router_mode, bind_mode, https_only) ==
    IF content # <<>>
    THEN {[store |-> kv_put(store, _location_key(instance_name, path), strip(content)),
           raised |-> FALSE]}
    ELSE IF destination = None THEN {[store |-> store, raised |-> TRUE]}
    ELSE LET host == host_from_destination(destination)[1]
             upstream == IF bind_mode THEN <<"rpaas_default_upstream">> ELSE host
             generated == generate_host_config(path, destination, upstream,
                                               router_mode, https_only)
             upstream_server == IF router_mode THEN NoneArg ELSE StrArg(host)
         IN {[store |-> kv_put(r.store, _location_key(instance_name, path), generated),
              raised |-> FALSE] :
                r \in add_server_upstream(store, instance_name, upstream, upstream_server)}

\* remove_location(instance_name, path)
remove_location(store, instance_name, path) ==
    kv_delete(store, _location_key(instance_name, path))

LocationInstances == {<<"a">>}

Paths == { <<"/">>, <<"/", "x", "/">> }

LocationDestinations == { None, <<"http://", "app", ":", "80">> }

\* None, and contents with and without whitespace around them
Contents == { None, <<"x">>, <<" ", "x", " ", "\n">> }

\* location paths: the root, paths with slashes, and paths that hold the text
\* a slash is replaced with or the name the root is stored under
KeyPaths ==
    { <<"/">>, <<"/", "x">>, <<"/", "x", "/", "x">>, <<"/", "x", "___", "x">>, <<"ROOT">> }

KeyContents == { <<"x">>, <<"d1">> }

-----------------------------------------------------------------------------
(* Blocks and Lua modules *)

\* _block_key(instance_name, block_name): the key of a block, or without a
\* block name the prefix of the blocks of the instance
_block_key(instance_name, block_name) ==
    IF block_name # <<>>
    THEN _key(instance_name, <<"blocks", "/">> \o block_name \o <<"/", "ROOT">>)
    ELSE _key(instance_name, <<"blocks">>)

\* write_block(instance_name, block_name, content)
write_block(store, instance_name, block_name, content) ==
    kv_put(store, _block_key(instance_name, block_name),
           _set_header_footer(content, block_name, FALSE))

\* remove_block(instance_name, block_name)
remove_block(store, instance_name, block_name) ==
    write_block(store, instance_name, block_name, None)

\* list_blocks(instance_name, block_name): the list of the blocks under the
\* key, in the order of their keys, without those whose content is empty
list_blocks(store, instance_name, block_name) ==
    LET blocks == kv_get_recurse(store, _block_key(instance_name, block_name))
        name(i) == LET parts == split(blocks[i].Key, "/") IN parts[Len(parts) - 1]
        block_value(i) == _set_header_footer(blocks[i].Value, name(i), TRUE)
        kept == SelectSeq([i \in 1..Len(blocks) |-> i], LAMBDA i : block_value(i) # <<>>)
    IN [j \in 1..Len(kept) |-> [block_name |-> name(kept[j]),
                                 content |-> block_value(kept[j])]]

\* _lua_key(instance_name, lua_module_name, lua_module_type)
_lua_key(instance_name, lua_module_name, lua_module_type) ==
    LET base_key == IF lua_module_name # <<>> /\ lua_module_type # <<>>
                    THEN <<"lua_module", "/">> \o lua_module_type \o <<"/">> \o lua_module_name
                    ELSE <<"lua_module">>
    IN _key(instance_name, base_key)

\* write_lua(instance_name, lua_module_name, lua_module_type, content)
write_lua(store, instance_name, lua_module_name, lua_module_type, content) ==
    kv_put(store, _lua_key(instance_name, lua_module_name, lua_module_type),
           _lua_module_escope(lua_module_name, content))

\* list_lua_modules(instance_name): one entry for each key under the lua_module
\* key of the instance, named by the last but one segment of the key
list_lua_modules(store, instance_name) ==
    LET modules == kv_get_recurse(store, _lua_key(instance_name, <<>>, <<>>))
    IN [n \in 1..Len(modules) |->
          LET parts == split(modules[n].Key, "/")
          IN [module_name |-> parts[Len(parts) - 1], content |-> modules[n].Value]]

\* remove_lua deleting the key of the module
remove_lua_delete(store, instance_name, lua_module_name, lua_module_type) ==
    kv_delete(store, _lua_key(instance_name, lua_module_name, lua_module_type))

\* remove_lua(instance_name, lua_module_name, lua_module_type)
remove_lua(store, instance_name, lua_module_name, lua_module_type) ==
    write_lua(store, instance_name, lua_module_name, lua_module_type, None)

BlockInstances == {<<"a">>}

\* the block names write_block is called with
WrittenBlockNames == { <<"http">>, <<"server">> }

\* None, contents with and without whitespace around them, whitespace only, and
\* a content that holds a sentinel line
BlockContents ==
    { None, <<"x">>, <<" ", "x", " ", "\n">>, <<" ">>,
      <<"x", "\n", "## End custom RpaaS ", "http", " block ##", "\n", "x">> }

LuaInstances == {<<"a">>}

LuaTypes == { <<"server">>, <<"worker">> }

\* an instance, and one whose name starts with the name of the first
DestroyedInstances == { <<"a">>, <<"a", "b">> }

-----------------------------------------------------------------------------
(* The calls, one action each: a call runs alone, from its first KV request *)
(* to its last                                                             *)

\* the quota collection with no document
NoDocuments == <<>>

NoCall == [op |-> "none"]

\* the callers that can have a call in progress at the same time
Callers == {"caller1", "caller2"}

\* a caller that has not called yet
NotCalled == [pc |-> "not called"]

\* the state after construction: an empty store, no call made
Init ==
    /\ kv = EmptyStore
    /\ last = NoCall
    /\ calls = [caller \in Callers |-> NotCalled]
    /\ db = NoDocuments

\* a call that ran alone, from its first KV request to its last, has returned
\* or raised
Completed(call) ==
    /\ last' = call
    /\ UNCHANGED <<calls, db>>

SwapInstances ==
    \E src_instance \in InstanceNames, dst_instance \in InstanceNames :
        LET r == swap_instances(kv, src_instance, dst_instance)
        IN /\ kv' = r.store
           /\ Completed([op |-> "swap_instances",
                         src_instance |-> src_instance,
                         dst_instance |-> dst_instance,
                         raised |-> r.raised, pre |-> kv])

DestroyInstance ==
    \E instance_name \in InstanceNames :
        /\ kv' = destroy_instance(kv, instance_name)
        /\ Completed([op |-> "destroy_instance", instance_name |-> instance_name,
                      raised |-> FALSE, pre |-> kv])

AddServerUpstream ==
    \E instance_name \in UpstreamInstances, upstream_name \in UpstreamNames :
        \E server \in ServerArgs :
            \E r \in add_server_upstream(kv, instance_name, upstream_name, server) :
                /\ kv' = r.store
                /\ Completed([op |-> "add_server_upstream",
                              instance_name |-> instance_name,
                              upstream_name |-> upstream_name, server |-> server,
                              raised |-> r.raised, requests |-> r.requests,
                              pre |-> kv])

RemoveServerUpstream ==
    \E instance_name \in UpstreamInstances, upstream_name \in UpstreamNames :
        \E server \in ServerArgs :
            \E r \in remove_server_upstream(kv, instance_name, upstream_name, server) :
                /\ kv' = r.store
                /\ Completed([op |-> "remove_server_upstream",
                              instance_name |-> instance_name,
                              upstream_name |-> upstream_name, server |-> server,
                              raised |-> r.raised, requests |-> r.requests,
                              pre |-> kv])

\* add_server_upstream and remove_server_upstream calls, from an empty store
NextUpstream == AddServerUpstream \/ RemoveServerUpstream

SpecUpstream == Init /\ [][NextUpstream]_vars

StoreAclNetwork ==
    \E instance_name \in AclInstances, src \in AclSources, dst \in Destinations :
        \E stored \in store_acl_network(kv, instance_name, src, dst) :
            /\ kv' = stored
            /\ Completed([op |-> "store_acl_network", instance_name |-> instance_name,
                          src |-> src, dst |-> dst, raised |-> FALSE, pre |-> kv])

RemoveAclNetwork ==
    \E instance_name \in AclInstances, src \in AclSources :
        /\ kv' = remove_acl_network(kv, instance_name, src)
        /\ Completed([op |-> "remove_acl_network", instance_name |-> instance_name,
                      src |-> src, raised |-> FALSE, pre |-> kv])

\* store_acl_network and remove_acl_network calls, from an empty store
NextAcl == StoreAclNetwork \/ RemoveAclNetwork

SpecAcl == Init /\ [][NextAcl]_vars

\* the source strings: the non-empty strings of at most MaxSrcLen characters
MaxSrcLen == 3

SrcChars == {"1", "3", "/", "_"}

SourceStrings == UNION {[1..n -> SrcChars] : n \in 1..MaxSrcLen}

\* _normalize_acl_src applied to a source string
NormalizeAclSrc ==
    \E src \in SourceStrings :
        /\ Completed([op |-> "_normalize_acl_src", src |-> src, times |-> 1,
                      result |-> _normalize_acl_src(src)])
        /\ UNCHANGED kv

\* _normalize_acl_src applied to what it returned
NormalizeAclSrcAgain ==
    /\ last.op = "_normalize_acl_src"
    /\ last.times = 1
    /\ Completed([last EXCEPT !.times = 2, !.result = _normalize_acl_src(last.result)])
    /\ UNCHANGED kv

NextNormalize == NormalizeAclSrc \/ NormalizeAclSrcAgain

SpecNormalize == Init /\ [][NextNormalize]_vars

SetCertificateOf(scopes, cert_texts, key_texts) ==
    \E scope \in scopes, cert_data \in cert_texts, key_data \in key_texts :
        /\ kv' = set_certificate(kv, scope[1], cert_data, key_data, scope[2])
        /\ Completed([op |-> "set_certificate", instance_name |-> scope[1],
                      host_id |-> scope[2], cert_data |-> cert_data,
                      key_data |-> key_data, raised |-> FALSE, pre |-> kv])

GetCertificateOf(scopes) ==
    \E scope \in scopes :
        LET r == get_certificate(kv, scope[1], scope[2])
        IN /\ Completed([op |-> "get_certificate", instance_name |-> scope[1],
                         host_id |-> scope[2], raised |-> r.raised,
                         result |-> r.result, pre |-> kv])
           /\ UNCHANGED kv

SetCertificate == SetCertificateOf(CertScopes, CertData, KeyData)

GetCertificate == GetCertificateOf(CertScopes)

DeleteCertificate ==
    \E instance_name \in CertInstances :
        /\ kv' = delete_certificate(kv, instance_name)
        /\ Completed([op |-> "delete_certificate", instance_name |-> instance_name,
                      raised |-> FALSE, pre |-> kv])

RemoveNode ==
    \E instance_name \in NodeInstances, server_name \in ServerNames, host_id \in HostIds :
        /\ kv' = remove_node(kv, instance_name, server_name, host_id)
        /\ Completed([op |-> "remove_node", instance_name |-> instance_name,
                      server_name |-> server_name, host_id |-> host_id,
                      force_leave |-> server_name, raised |-> FALSE, pre |-> kv])

\* a server reports its status: a put of its status key by the server
PutStatus ==
    \E instance_name \in NodeInstances, server_name \in ServerNames :
        /\ kv' = kv_put(kv, _key(instance_name, <<"status", "/">> \o server_name),
                        <<"service OK">>)
        /\ Completed([op |-> "kv.put status", instance_name |-> instance_name,
                      server_name |-> server_name, raised |-> FALSE, pre |-> kv])

\* a put of the cert half of a certificate alone, by a writer other than
\* set_certificate
PutCert ==
    \E scope \in CertScopes :
        /\ kv' = kv_put(kv, _key(scope[1], <<"ssl", "/">>
                                   \o (IF scope[2] # None THEN scope[2] \o <<"/">> ELSE <<>>)
                                   \o <<"cert">>),
                        <<"cert">>)
        /\ Completed([op |-> "kv.put cert", instance_name |-> scope[1],
                      host_id |-> scope[2], raised |-> FALSE, pre |-> kv])

\* certificate and node calls, and the writes of other writers, from an empty
\* store
NextCert ==
    \/ SetCertificate
    \/ GetCertificate
    \/ DeleteCertificate
    \/ RemoveNode
    \/ PutStatus
    \/ PutCert

SpecCert == Init /\ [][NextCert]_vars

SetCertificateText == SetCertificateOf(TextScopes, CertTexts, CertTexts)

GetCertificateText == GetCertificateOf(TextScopes)

\* set_certificate calls with texts of several line endings, and get_certificate
NextCrlf == SetCertificateText \/ GetCertificateText

SpecCrlf == Init /\ [][NextCrlf]_vars

WriteLocation ==
    \E instance_name \in LocationInstances, path \in Paths :
        \E destination \in LocationDestinations, content \in Contents :
            \E router_mode \in BOOLEAN, bind_mode \in BOOLEAN, https_only \in BOOLEAN :
                \E r \in write_location(kv, instance_name, path, destination, content,
                                        router_mode, bind_mode, https_only) :
                    /\ kv' = r.store
                    /\ Completed([op |-> "write_location",
                                  instance_name |-> instance_name, path |-> path,
                                  destination |-> destination, content |-> content,
                                  router_mode |-> router_mode, bind_mode |-> bind_mode,
                                  https_only |-> https_only, raised |-> r.raised,
                                  pre |-> kv])

RemoveLocation ==
    \E instance_name \in LocationInstances, path \in Paths :
        /\ kv' = remove_location(kv, instance_name, path)
        /\ Completed([op |-> "remove_location", instance_name |-> instance_name,
                      path |-> path, raised |-> FALSE, pre |-> kv])

\* write_location and remove_location calls, from an empty store
NextLocation == WriteLocation \/ RemoveLocation

SpecLocation == Init /\ [][NextLocation]_vars

\* _set_header_footer(content, block_name)
SetHeaderFooter ==
    \E content \in FramedContents, block_name \in BlockNames :
        /\ Completed([op |-> "_set_header_footer", content |-> content,
                      block_name |-> block_name, remove |-> FALSE,
                      result |-> _set_header_footer(content, block_name, FALSE)])
        /\ UNCHANGED kv

\* _set_header_footer(value, block_name, True) of the value it returned
RemoveHeaderFooter ==
    /\ last.op = "_set_header_footer"
    /\ ~last.remove
    /\ Completed([last EXCEPT !.remove = TRUE,
                              !.result = _set_header_footer(last.result, last.block_name, TRUE)])
    /\ UNCHANGED kv

\* _lua_module_escope(lua_module_name, content)
LuaModuleEscope ==
    \E lua_module_name \in LuaNames, content \in LuaContents :
        /\ Completed([op |-> "_lua_module_escope", content |-> content,
                      lua_module_name |-> lua_module_name,
                      result |-> _lua_module_escope(lua_module_name, content)])
        /\ UNCHANGED kv

\* the framing functions applied to contents and labels
NextFraming == SetHeaderFooter \/ RemoveHeaderFooter \/ LuaModuleEscope

SpecFraming == Init /\ [][NextFraming]_vars

WriteBlock ==
    \E instance_name \in BlockInstances, block_name \in WrittenBlockNames :
        \E content \in BlockContents :
            /\ kv' = write_block(kv, instance_name, block_name, content)
            /\ Completed([op |-> "write_block", instance_name |-> instance_name,
                          block_name |-> block_name, content |-> content,
                          raised |-> FALSE, pre |-> kv])

RemoveBlock ==
    \E instance_name \in BlockInstances, block_name \in WrittenBlockNames :
        /\ kv' = remove_block(kv, instance_name, block_name)
        /\ Completed([op |-> "remove_block", instance_name |-> instance_name,
                      block_name |-> block_name, content |-> None,
                      raised |-> FALSE, pre |-> kv])

\* write_block and remove_block calls, from an empty store
NextBlocks == WriteBlock \/ RemoveBlock

SpecBlocks == Init /\ [][NextBlocks]_vars

WriteLua ==
    \E instance_name \in LuaInstances, lua_module_name \in LuaNames :
        \E lua_module_type \in LuaTypes, content \in LuaContents :
            /\ kv' = write_lua(kv, instance_name, lua_module_name, lua_module_type, content)
            /\ Completed([op |-> "write_lua", instance_name |-> instance_name,
                          lua_module_name |-> lua_module_name,
                          lua_module_type |-> lua_module_type, content |-> content,
                          raised |-> FALSE, pre |-> kv])

RemoveLua ==
    \E instance_name \in LuaInstances, lua_module_name \in LuaNames :
        \E lua_module_type \in LuaTypes :
            /\ kv' = remove_lua(kv, instance_name, lua_module_name, lua_module_type)
            /\ Completed([op |-> "remove_lua", instance_name |-> instance_name,
                          lua_module_name |-> lua_module_name,
                          lua_module_type |-> lua_module_type, content |-> None,
                          raised |-> FALSE, pre |-> kv])

\* write_lua and remove_lua calls, from an empty store
NextLua == WriteLua \/ RemoveLua

SpecLua == Init /\ [][NextLua]_vars

WriteHealthcheck ==
    \E instance_name \in DestroyedInstances :
        /\ kv' = write_healthcheck(kv, instance_name)
        /\ Completed([op |-> "write_healthcheck", instance_name |-> instance_name,
                      raised |-> FALSE, pre |-> kv])

\* write_location(instance_name, "/", destination=...): a location and the
\* upstream of its destination
WriteRootLocation ==
    \E instance_name \in DestroyedInstances :
        \E r \in write_location(kv, instance_name, <<"/">>, <<"http://", "app", ":", "80">>,
                                None, FALSE, FALSE, FALSE) :
            /\ kv' = r.store
            /\ Completed([op |-> "write_location", instance_name |-> instance_name,
                          raised |-> r.raised, pre |-> kv])

WriteHttpBlock ==
    \E instance_name \in DestroyedInstances :
        /\ kv' = write_block(kv, instance_name, <<"http">>, <<"x">>)
        /\ Completed([op |-> "write_block", instance_name |-> instance_name,
                      raised |-> FALSE, pre |-> kv])

SetDefaultCertificate ==
    \E instance_name \in DestroyedInstances :
        /\ kv' = set_certificate(kv, instance_name, <<"cert">>, <<"key">>, None)
        /\ Completed([op |-> "set_certificate", instance_name |-> instance_name,
                      raised |-> FALSE, pre |-> kv])

\* swap_instances of two different instances
SwapTwoInstances ==
    \E src_instance \in DestroyedInstances :
        \E dst_instance \in DestroyedInstances \ {src_instance} :
            LET r == swap_instances(kv, src_instance, dst_instance)
            IN /\ kv' = r.store
               /\ Completed([op |-> "swap_instances", instance_name |-> src_instance,
                             raised |-> r.raised, pre |-> kv])

DestroyOneInstance ==
    \E instance_name \in DestroyedInstances :
        /\ kv' = destroy_instance(kv, instance_name)
        /\ Completed([op |-> "destroy_instance", instance_name |-> instance_name,
                      raised |-> FALSE, pre |-> kv])

\* instances are given keys of every category and destroyed
NextDestroy ==
    \/ WriteHealthcheck
    \/ WriteRootLocation
    \/ WriteHttpBlock
    \/ SetDefaultCertificate
    \/ SwapTwoInstances
    \/ DestroyOneInstance

SpecDestroy == Init /\ [][NextDestroy]_vars

\* write_location(instance_name, path, content=content)
WriteLocationContent ==
    \E instance_name \in LocationInstances, path \in KeyPaths, content \in KeyContents :
        \E r \in write_location(kv, instance_name, path, None, content, FALSE, FALSE, FALSE) :
            /\ kv' = r.store
            /\ Completed([op |-> "write_location", instance_name |-> instance_name,
                          path |-> path, content |-> content, raised |-> r.raised,
                          pre |-> kv])

RemoveLocationPath ==
    \E instance_name \in LocationInstances, path \in KeyPaths :
        /\ kv' = remove_location(kv, instance_name, path)
        /\ Completed([op |-> "remove_location", instance_name |-> instance_name,
                      path |-> path, content |-> None, raised |-> FALSE, pre |-> kv])

\* locations written with a content and removed, over several paths
NextLocationPaths == WriteLocationContent \/ RemoveLocationPath

SpecLocationPaths == Init /\ [][NextLocationPaths]_vars

\* swap_instances calls only, from an empty store
NextSwap == SwapInstances

SpecSwap == Init /\ [][NextSwap]_vars

\* swap_instances and destroy_instance calls, from an empty store
NextSwapDestroy == SwapInstances \/ DestroyInstance

SpecSwapDestroy == Init /\ [][NextSwapDestroy]_vars

-----------------------------------------------------------------------------
(* Calls of two callers, interleaved at the KV requests: a step is one KV     *)
(* request of a call, with what the call computes before the next one         *)

\* the callers whose call has returned or raised
Returned == {caller \in Callers : calls[caller].pc \in {"returned", "raised"}}

\* a caller calls add_server_upstream(instance_name, upstream_name, server)
\* with an address: the call is not falsy and goes on to list_upstream
BeginAddServerUpstream(caller) ==
    /\ calls[caller].pc = "not called"
    /\ \E instance_name \in UpstreamInstances, upstream_name \in UpstreamNames :
         \E address \in Addresses :
            calls' = [calls EXCEPT ![caller] =
                        [pc |-> "list_upstream", op |-> "add_server_upstream",
                         instance_name |-> instance_name,
                         upstream_name |-> upstream_name,
                         server |-> StrArg(address), after |-> Returned]]
    /\ UNCHANGED <<kv, last>>
    /\ UNCHANGED db

\* the kv.get of list_upstream, and the union with the normalized server
ListUpstreamOfAdd(caller) ==
    /\ calls[caller].pc = "list_upstream"
    /\ calls' = [calls EXCEPT ![caller] =
                   [pc |-> "_save_upstream", op |-> calls[caller].op,
                    instance_name |-> calls[caller].instance_name,
                    upstream_name |-> calls[caller].upstream_name,
                    server |-> calls[caller].server, after |-> calls[caller].after,
                    servers |-> list_upstream(kv, calls[caller].instance_name,
                                              calls[caller].upstream_name)
                                  \cup normalized_set(calls[caller].server)]]
    /\ UNCHANGED <<kv, last>>
    /\ UNCHANGED db

\* the kv.put of _save_upstream, and the return of add_server_upstream
SaveUpstreamOfAdd(caller) ==
    /\ calls[caller].pc = "_save_upstream"
    /\ kv' \in _save_upstream(kv, calls[caller].instance_name,
                              calls[caller].upstream_name, calls[caller].servers)
    /\ calls' = [calls EXCEPT ![caller] =
                   [pc |-> "returned", op |-> calls[caller].op,
                    instance_name |-> calls[caller].instance_name,
                    upstream_name |-> calls[caller].upstream_name,
                    server |-> calls[caller].server, after |-> calls[caller].after]]
    /\ last' = [op |-> "add_server_upstream",
                instance_name |-> calls[caller].instance_name,
                upstream_name |-> calls[caller].upstream_name,
                server |-> calls[caller].server, raised |-> FALSE, pre |-> kv,
                requests |-> <<"get", "put">>]
    /\ UNCHANGED db

\* each caller calls add_server_upstream once, from an empty store
NextUpstreamRace ==
    \E caller \in Callers :
        \/ BeginAddServerUpstream(caller)
        \/ ListUpstreamOfAdd(caller)
        \/ SaveUpstreamOfAdd(caller)

SpecUpstreamRace == Init /\ [][NextUpstreamRace]_vars

\* the key a put or delete of a call in swap_instances is about
SwapKey(instance_name) == _key(instance_name, <<"swap">>)

\* the part of a store a kv.get of one key reads
ReadOf(store, key) == [k \in (DOMAIN store) \cap {key} |-> store[k]]

\* the instances of the interleaved swap_instances calls
RaceInstances == { <<"a">>, <<"b">>, <<"c">> }

\* a caller calls swap_instances(src_instance, dst_instance) with two
\* different instances
BeginSwapInstances(caller) ==
    /\ calls[caller].pc = "not called"
    /\ \E src_instance \in RaceInstances :
         \E dst_instance \in RaceInstances \ {src_instance} :
            calls' = [calls EXCEPT ![caller] =
                        [pc |-> "check src", op |-> "swap_instances",
                         src_instance |-> src_instance,
                         dst_instance |-> dst_instance,
                         read |-> EmptyStore, after |-> Returned]]
    /\ UNCHANGED <<kv, last>>
    /\ UNCHANGED db

\* check_swap_state: the kv.get of the swap pointer of src_instance
CheckSwapStateSrc(caller) ==
    /\ calls[caller].pc = "check src"
    /\ calls' = [calls EXCEPT ![caller] =
                   [calls[caller] EXCEPT
                      !.pc = "check dst",
                      !.read = ReadOf(kv, SwapKey(calls[caller].src_instance))]]
    /\ UNCHANGED <<kv, last>>
    /\ UNCHANGED db

\* check_swap_state: the kv.get of the swap pointer of dst_instance, and the
\* comparisons of what the two requests read; swap_instances raises when the
\* check fails
CheckSwapStateDst(caller) ==
    /\ calls[caller].pc = "check dst"
    /\ LET call == calls[caller]
           read == kv_put(call.read, SwapKey(call.dst_instance),
                          kv[SwapKey(call.dst_instance)])
           seen == IF SwapKey(call.dst_instance) \in DOMAIN kv THEN read ELSE call.read
           passed == check_swap_state(seen, call.src_instance, call.dst_instance)
       IN /\ calls' = [calls EXCEPT ![caller] =
                         [call EXCEPT !.pc = IF passed THEN "get src" ELSE "raised",
                                      !.read = seen]]
          /\ last' = IF passed THEN last
                     ELSE [op |-> "swap_instances", src_instance |-> call.src_instance,
                           dst_instance |-> call.dst_instance, raised |-> TRUE,
                           pre |-> kv]
    /\ UNCHANGED kv
    /\ UNCHANGED db

\* swap_instances: the kv.get of the swap pointer of src_instance, and the
\* choice of the branch
GetSrcInstanceValue(caller) ==
    /\ calls[caller].pc = "get src"
    /\ LET call == calls[caller]
           src_instance_value == kv_get(kv, SwapKey(call.src_instance))
       IN calls' = [calls EXCEPT ![caller] =
                      [call EXCEPT
                         !.pc = IF src_instance_value = None THEN "put src"
                                ELSE IF src_instance_value[1].Value = call.dst_instance
                                THEN "delete src"
                                ELSE "put src",
                         !.read = ReadOf(kv, SwapKey(call.src_instance))]]
    /\ UNCHANGED <<kv, last>>
    /\ UNCHANGED db

\* swap_instances: the first kv.put of a branch that assigns
PutSrcSwap(caller) ==
    /\ calls[caller].pc = "put src"
    /\ kv' = kv_put(kv, SwapKey(calls[caller].src_instance), calls[caller].dst_instance)
    /\ calls' = [calls EXCEPT ![caller] = [calls[caller] EXCEPT !.pc = "put dst"]]
    /\ UNCHANGED last
    /\ UNCHANGED db

\* swap_instances: the second kv.put of a branch that assigns, and the return
PutDstSwap(caller) ==
    /\ calls[caller].pc = "put dst"
    /\ kv' = kv_put(kv, SwapKey(calls[caller].dst_instance), calls[caller].src_instance)
    /\ calls' = [calls EXCEPT ![caller] = [calls[caller] EXCEPT !.pc = "returned"]]
    /\ last' = [op |-> "swap_instances", src_instance |-> calls[caller].src_instance,
                dst_instance |-> calls[caller].dst_instance, raised |-> FALSE,
                pre |-> kv]
    /\ UNCHANGED db

\* swap_instances: the first kv.delete of the branch that swaps back
DeleteSrcSwap(caller) ==
    /\ calls[caller].pc = "delete src"
    /\ kv' = kv_delete(kv, SwapKey(calls[caller].src_instance))
    /\ calls' = [calls EXCEPT ![caller] = [calls[caller] EXCEPT !.pc = "delete dst"]]
    /\ UNCHANGED last
    /\ UNCHANGED db

\* swap_instances: the second kv.delete of the branch that swaps back, and the
\* return
DeleteDstSwap(caller) ==
    /\ calls[caller].pc = "delete dst"
    /\ kv' = kv_delete(kv, SwapKey(calls[caller].dst_instance))
    /\ calls' = [calls EXCEPT ![caller] = [calls[caller] EXCEPT !.pc = "returned"]]
    /\ last' = [op |-> "swap_instances", src_instance |-> calls[caller].src_instance,
                dst_instance |-> calls[caller].dst_instance, raised |-> FALSE,
                pre |-> kv]
    /\ UNCHANGED db

\* each caller calls swap_instances once, from an empty store
NextSwapRace ==
    \E caller \in Callers :
        \/ BeginSwapInstances(caller)
        \/ CheckSwapStateSrc(caller)
        \/ CheckSwapStateDst(caller)
        \/ GetSrcInstanceValue(caller)
        \/ PutSrcSwap(caller)
        \/ PutDstSwap(caller)
        \/ DeleteSrcSwap(caller)
        \/ DeleteDstSwap(caller)

SpecSwapRace == Init /\ [][NextSwapRace]_vars

\* a caller calls swap_instances(src_instance, dst_instance) with two
\* different instances while no other call is in progress
BeginSwapInstancesAlone(caller) ==
    /\ calls[caller].pc = "not called"
    /\ \A other \in Callers \ {caller} : calls[other].pc \in {"not called", "returned", "raised"}
    /\ \E src_instance \in RaceInstances :
         \E dst_instance \in RaceInstances \ {src_instance} :
            calls' = [calls EXCEPT ![caller] =
                        [pc |-> "check src", op |-> "swap_instances",
                         src_instance |-> src_instance,
                         dst_instance |-> dst_instance,
                         read |-> EmptyStore, after |-> Returned, pre |-> kv]]
    /\ UNCHANGED <<kv, last>>
    /\ UNCHANGED db

\* the KV requests of swap_instances, by the position of the call before them
SwapRequests ==
    {"check src", "check dst", "get src", "put src", "put dst", "delete src", "delete dst"}

\* a KV request of swap_instances fails: the client raises, nothing is
\* retried or caught, and the call ends with the error
FailSwapRequest(caller) ==
    /\ calls[caller].pc \in SwapRequests
    /\ calls' = [calls EXCEPT ![caller] = [calls[caller] EXCEPT !.pc = "raised"]]
    /\ last' = [op |-> "swap_instances", src_instance |-> calls[caller].src_instance,
                dst_instance |-> calls[caller].dst_instance, raised |-> TRUE,
                failed |-> calls[caller].pc, pre |-> calls[caller].pre]
    /\ UNCHANGED kv
    /\ UNCHANGED db

\* the callers call swap_instances one after the other, and a KV request can
\* fail
NextSwapFailure ==
    \E caller \in Callers :
        \/ BeginSwapInstancesAlone(caller)
        \/ CheckSwapStateSrc(caller)
        \/ CheckSwapStateDst(caller)
        \/ GetSrcInstanceValue(caller)
        \/ PutSrcSwap(caller)
        \/ PutDstSwap(caller)
        \/ DeleteSrcSwap(caller)
        \/ DeleteDstSwap(caller)
        \/ FailSwapRequest(caller)

SpecSwapFailure == Init /\ [][NextSwapFailure]_vars

\* the host ids of the servers of an instance: the second starts with the first
NodeHostIds == { <<"h">>, <<"h", "2">> }

\* the store test_remove_node starts from: the status of two servers, the
\* default certificate and the certificates of two hosts
NodeStore ==
    [k \in {_server_status_key(i, s) : i \in NodeInstances, s \in ServerNames}
           \cup {_ssl_cert_path(i, t, h) : i \in NodeInstances, t \in {<<"cert">>, <<"key">>},
                                           h \in NodeHostIds \cup {None}}
       |-> IF k \in {_server_status_key(i, s) : i \in NodeInstances, s \in ServerNames}
           THEN <<"service OK">> ELSE <<"cert">>]

InitNodes ==
    /\ kv = NodeStore
    /\ last = NoCall
    /\ calls = [caller \in Callers |-> NotCalled]
    /\ db = NoDocuments

\* a caller calls remove_node(instance_name, server_name, host_id)
BeginRemoveNode(caller) ==
    /\ calls[caller].pc = "not called"
    /\ \E instance_name \in NodeInstances, server_name \in ServerNames :
         \E host_id \in NodeHostIds :
            calls' = [calls EXCEPT ![caller] =
                        [pc |-> "remove_node", op |-> "remove_node",
                         instance_name |-> instance_name, server_name |-> server_name,
                         host_id |-> host_id, issued |-> <<>>, after |-> Returned]]
    /\ UNCHANGED <<kv, last>>
    /\ UNCHANGED db

\* the request a call of remove_node issues next
NextRequest(call) == remove_node_requests[Len(call.issued) + 1]

\* a call of remove_node once it has issued its next request: it returns after
\* the last one
AfterRequest(call) ==
    [call EXCEPT !.issued = Append(call.issued, NextRequest(call)),
                 !.pc = IF Len(call.issued) + 1 = Len(remove_node_requests)
                        THEN "returned" ELSE "remove_node"]

\* the call that has returned, when the request issued was the last one
LastAfterRequest(call) ==
    IF Len(call.issued) + 1 = Len(remove_node_requests)
    THEN [op |-> "remove_node", instance_name |-> call.instance_name,
          server_name |-> call.server_name, host_id |-> call.host_id,
          force_leave |-> call.server_name, raised |-> FALSE, pre |-> kv]
    ELSE last

\* remove_node: the kv.delete of the status key of the server
DeleteServerStatus(caller) ==
    /\ calls[caller].pc = "remove_node"
    /\ NextRequest(calls[caller]) = "kv.delete status"
    /\ kv' = kv_delete(kv, _server_status_key(calls[caller].instance_name,
                                              calls[caller].server_name))
    /\ calls' = [calls EXCEPT ![caller] = AfterRequest(calls[caller])]
    /\ last' = LastAfterRequest(calls[caller])
    /\ UNCHANGED db

\* remove_node: the recursive kv.delete of the certificates of the host
DeleteHostCertificates(caller) ==
    /\ calls[caller].pc = "remove_node"
    /\ NextRequest(calls[caller]) = "kv.delete ssl"
    /\ kv' = kv_delete_recurse(kv, _ssl_cert_path(calls[caller].instance_name, <<>>,
                                                  calls[caller].host_id))
    /\ calls' = [calls EXCEPT ![caller] = AfterRequest(calls[caller])]
    /\ last' = LastAfterRequest(calls[caller])
    /\ UNCHANGED db

\* remove_node: agent.force_leave(server_name), after which the node has left
ForceLeave(caller) ==
    /\ calls[caller].pc = "remove_node"
    /\ NextRequest(calls[caller]) = "agent.force_leave"
    /\ calls' = [calls EXCEPT ![caller] = AfterRequest(calls[caller])]
    /\ last' = LastAfterRequest(calls[caller])
    /\ UNCHANGED kv
    /\ UNCHANGED db

\* each caller calls remove_node once, from the store of test_remove_node
NextRemoveNode ==
    \E caller \in Callers :
        \/ BeginRemoveNode(caller)
        \/ DeleteServerStatus(caller)
        \/ DeleteHostCertificates(caller)
        \/ ForceLeave(caller)

SpecRemoveNode == InitNodes /\ [][NextRemoveNode]_vars

\* the scope the interleaved certificate calls address
RaceScope == << <<"a">>, None >>

\* the (cert_data, key_data) of the set_certificate calls: each call writes one
\* of these pairs
CertPairs ==
    { << <<"cert", "1">>, <<"key", "1">> >>, << <<"cert", "2", "\r", "\n">>, <<"key", "2">> >> }

\* a caller that has no call in progress
Idle(caller) == calls[caller].pc \in {"not called", "returned", "raised"}

\* a caller calls set_certificate(instance_name, cert_data, key_data, host_id)
BeginSetCertificate(caller) ==
    /\ Idle(caller)
    /\ \E pair \in CertPairs :
          calls' = [calls EXCEPT ![caller] =
                      [pc |-> "put cert", op |-> "set_certificate",
                       instance_name |-> RaceScope[1], host_id |-> RaceScope[2],
                       cert_data |-> pair[1], key_data |-> pair[2]]]
    /\ UNCHANGED <<kv, last>>
    /\ UNCHANGED db

\* set_certificate: the kv.put of the cert half
PutCertificateCert(caller) ==
    /\ calls[caller].pc = "put cert"
    /\ kv' = kv_put(kv, _ssl_cert_path(calls[caller].instance_name, <<"cert">>,
                                       calls[caller].host_id),
                    replace(calls[caller].cert_data, <<"\r", "\n">>, <<"\n">>))
    /\ calls' = [calls EXCEPT ![caller] = [calls[caller] EXCEPT !.pc = "put key"]]
    /\ UNCHANGED last
    /\ UNCHANGED db

\* set_certificate: the kv.put of the key half, and the return
PutCertificateKey(caller) ==
    /\ calls[caller].pc = "put key"
    /\ kv' = kv_put(kv, _ssl_cert_path(calls[caller].instance_name, <<"key">>,
                                       calls[caller].host_id),
                    replace(calls[caller].key_data, <<"\r", "\n">>, <<"\n">>))
    /\ calls' = [calls EXCEPT ![caller] = [calls[caller] EXCEPT !.pc = "returned"]]
    /\ last' = [op |-> "set_certificate", instance_name |-> calls[caller].instance_name,
                host_id |-> calls[caller].host_id, cert_data |-> calls[caller].cert_data,
                key_data |-> calls[caller].key_data, raised |-> FALSE]
    /\ UNCHANGED db

\* a caller calls get_certificate(instance_name, host_id)
BeginGetCertificate(caller) ==
    /\ Idle(caller)
    /\ calls' = [calls EXCEPT ![caller] =
                   [pc |-> "get cert", op |-> "get_certificate",
                    instance_name |-> RaceScope[1], host_id |-> RaceScope[2],
                    cert |-> None]]
    /\ UNCHANGED <<kv, last>>
    /\ UNCHANGED db

\* get_certificate: the kv.get of the cert half
GetCertificateCert(caller) ==
    /\ calls[caller].pc = "get cert"
    /\ calls' = [calls EXCEPT ![caller] =
                   [calls[caller] EXCEPT
                      !.pc = "get key",
                      !.cert = kv_get(kv, _ssl_cert_path(calls[caller].instance_name,
                                                         <<"cert">>, calls[caller].host_id))]]
    /\ UNCHANGED <<kv, last>>
    /\ UNCHANGED db

\* get_certificate: the kv.get of the key half, and the return of the two
\* values read or CertificateNotFoundError
GetCertificateKey(caller) ==
    /\ calls[caller].pc = "get key"
    /\ LET call == calls[caller]
           cert == call.cert
           key == kv_get(kv, _ssl_cert_path(call.instance_name, <<"key">>, call.host_id))
           raised == cert = None \/ key = None
       IN /\ calls' = [calls EXCEPT ![caller] =
                         [call EXCEPT !.pc = IF raised THEN "raised" ELSE "returned"]]
          /\ last' = [op |-> "get_certificate", instance_name |-> call.instance_name,
                      host_id |-> call.host_id, raised |-> raised,
                      result |-> IF raised THEN None ELSE <<cert[1].Value, key[1].Value>>]
    /\ UNCHANGED kv
    /\ UNCHANGED db

\* the callers call set_certificate and get_certificate on one scope, one call
\* after the other each, from an empty store
NextCertRace ==
    \E caller \in Callers :
        \/ BeginSetCertificate(caller)
        \/ PutCertificateCert(caller)
        \/ PutCertificateKey(caller)
        \/ BeginGetCertificate(caller)
        \/ GetCertificateCert(caller)
        \/ GetCertificateKey(caller)

SpecCertRace == Init /\ [][NextCertRace]_vars

-----------------------------------------------------------------------------
(* Swap pointers *)

\* the swap pointer of an instance in a store: None, or the one name it holds
SwapPointer(store, instance_name) ==
    LET item == kv_get(store, _key(instance_name, <<"swap">>))
    IN IF item = None THEN None ELSE Some(item[1].Value)

\* neither of the two instances has a swap pointer
Unswapped(store, a, b) ==
    /\ SwapPointer(store, a) = None
    /\ SwapPointer(store, b) = None

\* the two instances point to each other
Swapped(store, a, b) ==
    /\ SwapPointer(store, a) = Some(b)
    /\ SwapPointer(store, b) = Some(a)

\* exactly one of the two pointers is set, or both are and they do not refer to
\* each other
Inconsistent(store, a, b) ==
    /\ ~Unswapped(store, a, b)
    /\ ~Swapped(store, a, b)

\* the keys of two stores agree outside a set of keys
SameExcept(store1, store2, keys) ==
    /\ (DOMAIN store1) \ keys = (DOMAIN store2) \ keys
    /\ \A k \in (DOMAIN store1) \ keys : store1[k] = store2[k]

\* C1: swap toggle law.  From a state where neither A nor B has a swap pointer,
\* swap_instances(A,B) followed by swap_instances(A,B) or by swap_instances(B,A)
\* succeeds both times and leaves both swap keys absent.  (last is the first
\* call, last' the call that follows it.)
C1_SwapToggle ==
    [][ ( /\ last.op = "swap_instances"
          /\ Unswapped(last.pre, last.src_instance, last.dst_instance)
          /\ last'.op = "swap_instances"
          /\ \/ /\ last'.src_instance = last.src_instance
                /\ last'.dst_instance = last.dst_instance
             \/ /\ last'.src_instance = last.dst_instance
                /\ last'.dst_instance = last.src_instance )
        => /\ ~last.raised
           /\ ~last'.raised
           /\ Unswapped(kv', last.src_instance, last.dst_instance) ]_vars

\* two different instances that were swapped with each other were swapped
\* again, in either order, and neither has a swap pointer
C1_Witness ==
    /\ last.op = "swap_instances"
    /\ last.src_instance # last.dst_instance
    /\ Swapped(last.pre, last.src_instance, last.dst_instance)
    /\ ~last.raised
    /\ Unswapped(kv, last.src_instance, last.dst_instance)

\* C2: when neither A nor B has a swap pointer, swap_instances(A,B) succeeds,
\* afterwards A's swap key holds B and B's swap key holds A, and no other key is
\* created, changed or deleted.
C2_SwapFromUnswapped ==
    ( /\ last.op = "swap_instances"
      /\ Unswapped(last.pre, last.src_instance, last.dst_instance) )
    => /\ ~last.raised
       /\ Swapped(kv, last.src_instance, last.dst_instance)
       /\ SameExcept(kv, last.pre, {_key(last.src_instance, <<"swap">>),
                                    _key(last.dst_instance, <<"swap">>)})

\* two different unswapped instances were swapped while another pair was swapped
C2_Witness ==
    /\ last.op = "swap_instances"
    /\ last.src_instance # last.dst_instance
    /\ Unswapped(last.pre, last.src_instance, last.dst_instance)
    /\ DOMAIN last.pre # {}
    /\ Swapped(kv, last.src_instance, last.dst_instance)

\* the case of C3: A is swapped with another instance B, C is a third instance,
\* unswapped or swapped with a fourth instance D
SwapConflictCase(store, a, c) ==
    \E b \in InstanceNames \ {a, c} :
        /\ a # c
        /\ Swapped(store, a, b)
        /\ \/ SwapPointer(store, c) = None
           \/ \E d \in InstanceNames \ {a, b, c} : Swapped(store, c, d)

\* C3: swap conflict.  When A and B are swapped with each other,
\* swap_instances(A,C) for a third instance C, unswapped or swapped with a
\* fourth instance D, raises InstanceAlreadySwappedError and leaves every swap
\* pointer as it was.
C3_SwapConflict ==
    ( /\ last.op = "swap_instances"
      /\ SwapConflictCase(last.pre, last.src_instance, last.dst_instance) )
    => /\ last.raised
       /\ kv = last.pre

\* swap_instances(A,C) was refused while A was swapped with B and C with D
C3_Witness ==
    /\ last.op = "swap_instances"
    /\ SwapConflictCase(last.pre, last.src_instance, last.dst_instance)
    /\ SwapPointer(last.pre, last.dst_instance) # None
    /\ last.raised
    /\ kv = last.pre

\* C4: in every state in which the pair (A,B) is Inconsistent,
\* swap_instances(A,B) raises InstanceAlreadySwappedError and changes no key.
C4_InconsistentRefused ==
    ( /\ last.op = "swap_instances"
      /\ Inconsistent(last.pre, last.src_instance, last.dst_instance) )
    => /\ last.raised
       /\ kv = last.pre

\* C5: matched pairs.  After any sequence of swap_instances calls from a store
\* with no swap pointer, if X's swap pointer is Y then Y's swap pointer is X.
C5_MatchedPairs ==
    \A x \in InstanceNames, y \in InstanceNames :
        SwapPointer(kv, x) = Some(y) => SwapPointer(kv, y) = Some(x)

\* a swap was refused and two pairs of different instances are swapped
C5_Witness ==
    /\ last.op = "swap_instances"
    /\ last.raised
    /\ \E w \in InstanceNames, x \in InstanceNames :
          \E y \in InstanceNames, z \in InstanceNames :
              /\ Cardinality({w, x, y, z}) = 4
              /\ Swapped(kv, w, x)
              /\ Swapped(kv, y, z)

\* C28: in every execution in which swap_instances calls do not overlap and
\* nothing else writes swap keys, the last branch of swap_instances, which
\* assigns both pointers again after the check passed while the pointer of A is
\* set and is not B, is never executed: a call that does not raise finds the
\* pointer of A unset or equal to B.
C28_LastBranchNeverRuns ==
    ( /\ last.op = "swap_instances"
      /\ ~last.raised )
    => \/ SwapPointer(last.pre, last.src_instance) = None
       \/ SwapPointer(last.pre, last.src_instance) = Some(last.dst_instance)

\* C29: for every interleaving of two swap_instances calls at the KV requests
\* (the same pair in either order, or pairs that share one instance), once
\* both calls have returned or raised the swap pointers of the instances are
\* in matched pairs: no instance points to an instance that does not point
\* back.
C29_MatchedPairsInterleaved ==
    (\A caller \in Callers : caller \in Returned)
    => \A x \in RaceInstances, y \in RaceInstances :
          SwapPointer(kv, x) = Some(y) => SwapPointer(kv, y) = Some(x)

\* C36: after any sequence of swap_instances calls with any arguments, calls
\* with the same source and destination included, no swap pointer names the
\* instance it belongs to.
C36_NoSelfPointer ==
    \A x \in InstanceNames : SwapPointer(kv, x) # Some(x)

\* C37: after any sequence of swap_instances and destroy_instance calls that
\* do not overlap, swap pointers are in matched pairs: no instance is left
\* with a swap pointer to an instance that has no pointer back, and every
\* instance that has a pointer can still be swapped with the instance it
\* points to.
C37_MatchedPairsAfterDestroy ==
    \A x \in InstanceNames, y \in InstanceNames :
        SwapPointer(kv, x) = Some(y)
        => /\ SwapPointer(kv, y) = Some(x)
           /\ ~swap_instances(kv, x, y).raised

\* a KV request of the last swap_instances call failed, and no call has begun
\* since
RequestFailed ==
    /\ last.op = "swap_instances"
    /\ "failed" \in DOMAIN last
    /\ \A caller \in Callers : calls[caller].pc \in {"not called", "returned", "raised"}

\* C39: if a KV request issued by swap_instances(A,B) fails, the error
\* propagates to the caller without retry and the pair (A,B) is left in the
\* state it had before the call: no partial update, with only one of the two
\* pointers written or deleted, remains.
C39_FailedSwapChangesNothing ==
    RequestFailed
    => /\ last.raised
       /\ SwapPointer(kv, last.src_instance) = SwapPointer(last.pre, last.src_instance)
       /\ SwapPointer(kv, last.dst_instance) = SwapPointer(last.pre, last.dst_instance)

-----------------------------------------------------------------------------
(* Upstreams *)

IsUpstreamCall(call, op) ==
    /\ call.op = op
    /\ ~call.raised

\* the key of the upstream a call is about
CallUpstreamKey(call) == _upstream_key(call.instance_name, call.upstream_name)

\* the servers of the upstream a call is about, in a store
CallServers(store, call) == list_upstream(store, call.instance_name, call.upstream_name)

\* the sentinel pair with nothing between, as the tests read it from the store
EmptyUpstreamBlock ==
    << "## Begin custom RpaaS ", "upstream", " block ##", "\n",
       "## End custom RpaaS ", "upstream", " block ##" >>

\* the values that hold the servers of a non-empty set between the two
\* sentinel lines, in any order
UpstreamBlocks(servers) ==
    { << "## Begin custom RpaaS ", "upstream", " block ##", "\n" >>
        \o join(<<",">>, order)
        \o << "\n", "## End custom RpaaS ", "upstream", " block ##" >> :
      order \in Orderings(servers) }

\* host[:port] of each address the calls are made with
HostPort(address) ==
    CASE address = <<"http://", "s1", ":", "80">> -> <<"s1", ":", "80">>
      [] address = <<"s1", ":", "80">> -> <<"s1", ":", "80">>
      [] address = <<"s2">> -> <<"s2">>
      [] address = <<"http://", "s3">> -> <<"s3">>
      [] address = <<"s3", ":", "80">> -> <<"s3", ":", "80">>

\* the servers a server argument names: an address or a list of addresses
HostPorts(server) ==
    IF server.type = "list"
    THEN {HostPort(server.list[idx]) : idx \in 1..Len(server.list)}
    ELSE {HostPort(server.str)}

IsAddresses(server) ==
    \/ server.type = "list"
    \/ server.type = "str" /\ server.str # <<>>

\* C6 as stated: no upstream key is present whose server set is empty, and a
\* remove_server_upstream call that empties the set deletes the key.
C6_ZeroServerUpstreamDeleted ==
    /\ \A i \in UpstreamInstances, u \in UpstreamNames :
          _upstream_key(i, u) \in DOMAIN kv => list_upstream(kv, i, u) # {}
    /\ ( /\ IsUpstreamCall(last, "remove_server_upstream")
         /\ CallServers(last.pre, last) # {}
         /\ CallServers(kv, last) = {} )
       => CallUpstreamKey(last) \notin DOMAIN kv

\* C6 amended: when a remove_server_upstream call empties the set, list_upstream
\* returns the empty set and the upstream key stays in the store, holding the
\* two sentinel lines with nothing between them.
C6_EmptiedUpstreamKept ==
    ( /\ IsUpstreamCall(last, "remove_server_upstream")
      /\ CallServers(last.pre, last) # {}
      /\ CallServers(last.pre, last) \subseteq normalized_set(last.server) )
    => /\ CallServers(kv, last) = {}
       /\ CallUpstreamKey(last) \in DOMAIN kv
       /\ kv[CallUpstreamKey(last)] = EmptyUpstreamBlock

\* the last server of an upstream was removed
C6_Witness ==
    /\ IsUpstreamCall(last, "remove_server_upstream")
    /\ Cardinality(CallServers(last.pre, last)) = 1
    /\ CallServers(kv, last) = {}
    /\ kv[CallUpstreamKey(last)] = EmptyUpstreamBlock

\* a step from the state an add_server_upstream call left to the state the
\* same call, made again, leaves
AddedTwice ==
    /\ IsUpstreamCall(last, "add_server_upstream")
    /\ IsUpstreamCall(last', "add_server_upstream")
    /\ last'.instance_name = last.instance_name
    /\ last'.upstream_name = last.upstream_name
    /\ last'.server = last.server

\* C7 as stated: add_server_upstream(i,u,s) executed twice leaves the same server
\* set and the same stored value as executing it once.
C7_AddTwiceSameValue ==
    [][ AddedTwice => /\ CallServers(kv', last) = CallServers(kv, last)
                      /\ kv' = kv ]_vars

\* C7 amended: add_server_upstream(i,u,s) executed twice leaves the same server
\* set as executing it once, and a stored value that holds the same servers
\* between the sentinel lines, in the same or in another order; no other key
\* changes.
C7_AddTwiceSameSet ==
    [][ AddedTwice => /\ CallServers(kv', last) = CallServers(kv, last)
                      /\ SameExcept(kv', kv, {CallUpstreamKey(last)})
                      /\ \/ kv' = kv
                         \/ /\ CallUpstreamKey(last) \in DOMAIN kv
                            /\ CallUpstreamKey(last) \in DOMAIN kv'
                            /\ kv'[CallUpstreamKey(last)]
                                 \in UpstreamBlocks(CallServers(kv, last)) ]_vars

\* a list of two servers was added to an upstream that held them, and the
\* stored value holds them in another order than before
C7_Witness ==
    /\ IsUpstreamCall(last, "add_server_upstream")
    /\ last.server.type = "list"
    /\ Cardinality(normalized_set(last.server)) = 2
    /\ normalized_set(last.server) \subseteq CallServers(last.pre, last)
    /\ CallServers(kv, last) = CallServers(last.pre, last)
    /\ kv # last.pre

\* C8: upstream set semantics.  For S an address or a list of addresses,
\* list_upstream after add_server_upstream(i,u,S) is the previous set united
\* with the host[:port] of the addresses of S, and after
\* remove_server_upstream(i,u,S) the previous set minus them; removing a server
\* that is not in the set leaves the set unchanged.
C8_UpstreamSetSemantics ==
    /\ ( /\ IsUpstreamCall(last, "add_server_upstream")
         /\ IsAddresses(last.server) )
       => CallServers(kv, last) = CallServers(last.pre, last) \cup HostPorts(last.server)
    /\ ( /\ last.op = "remove_server_upstream"
         /\ IsAddresses(last.server) )
       => /\ ~last.raised
          /\ CallServers(kv, last) = CallServers(last.pre, last) \ HostPorts(last.server)

\* a list with the URL of a stored server and a server that is not stored was
\* removed from an upstream
C8_Witness ==
    /\ IsUpstreamCall(last, "remove_server_upstream")
    /\ last.server.type = "list"
    /\ \E idx \in 1..Len(last.server.list) :
          /\ Head(last.server.list[idx]) = "http://"
          /\ HostPort(last.server.list[idx]) \in CallServers(last.pre, last)
    /\ ~(HostPorts(last.server) \subseteq CallServers(last.pre, last))
    /\ CallServers(kv, last) # CallServers(last.pre, last)

\* C9: add_server_upstream and remove_server_upstream called with None, an empty
\* string or an empty list issue no KV request and leave the store unchanged.
C9_NoOpGuard ==
    ( /\ last.op \in {"add_server_upstream", "remove_server_upstream"}
      /\ Falsy(last.server) )
    => /\ last.requests = <<>>
       /\ kv = last.pre
-----------------------------------------------------------------------------
(* ACLs *)

\* a step from the state store_acl_network(i, src, d1) left, called when
\* find_acl_network(i, src) returned no entry, to the state
\* store_acl_network(i, src, d2) leaves
StoredTwice ==
    /\ last.op = "store_acl_network"
    /\ find_acl_network(last.pre, last.instance_name, last.src) = <<>>
    /\ last'.op = "store_acl_network"
    /\ last'.instance_name = last.instance_name
    /\ last'.src = last.src

StoredSources(store, instance_name) ==
    {src \in AclSources :
        _acl_key(instance_name, _normalize_acl_src(src)) \in DOMAIN store}

\* C11: find_acl_network(i, src) with a source given returns at most one entry,
\* and that entry's source is src, whatever other sources are stored for the
\* instance; with no source given it returns one entry for each stored source
\* of instance i.
C11_FindOneEntryPerSource ==
    \A instance_name \in AclInstances :
        /\ \A src \in AclSources :
              LET acls == find_acl_network(kv, instance_name, src)
              IN /\ Len(acls) <= 1
                 /\ Len(acls) = 1 => acls[1].source = src
        /\ LET acls == find_acl_network(kv, instance_name, None)
           IN /\ Len(acls) = Cardinality(StoredSources(kv, instance_name))
              /\ {acls[k].source : k \in 1..Len(acls)} = StoredSources(kv, instance_name)

\* C12: remove_acl_network(i, src) deletes the whole entry of src, so
\* find_acl_network(i, src) returns [] afterwards, and leaves every other key
\* unchanged.
C12_RemoveAclEntry ==
    last.op = "remove_acl_network"
    => /\ _acl_key(last.instance_name, _normalize_acl_src(last.src)) \notin DOMAIN kv
       /\ find_acl_network(kv, last.instance_name, last.src) = <<>>
       /\ SameExcept(kv, last.pre,
                     {_acl_key(last.instance_name, _normalize_acl_src(last.src))})

HasChar(s, c) == \E i \in 1..Len(s) : s[i] = c

\* C13: ACL source round-trip.  For every source string s that contains no "_",
\* _normalize_acl_src applied twice returns s, and s stored in its "/" form is
\* returned by find_acl_network, asked with s or with no source, in the same
\* form.
C13_AclSourceRoundTrip ==
    ( /\ last.op = "_normalize_acl_src"
      /\ last.times = 2
      /\ ~HasChar(last.src, "_") )
    => /\ last.result = last.src
       /\ \A instance_name \in AclInstances, dst \in Destinations :
             \A stored \in store_acl_network(EmptyStore, instance_name, last.src, dst) :
                /\ find_acl_network(stored, instance_name, last.src)
                     = <<[source |-> last.src, destination |-> <<dst>>]>>
                /\ find_acl_network(stored, instance_name, None)
                     = <<[source |-> last.src, destination |-> <<dst>>]>>

\* a source with a "/" and no "_" was normalized twice and came back
C13_Witness ==
    /\ last.op = "_normalize_acl_src"
    /\ last.times = 2
    /\ HasChar(last.src, "/")
    /\ ~HasChar(last.src, "_")
    /\ Len(last.src) = 3
    /\ last.result = last.src

-----------------------------------------------------------------------------
(* Certificates and nodes *)

\* the key of one half of a certificate in the namespace layout: ssl/<half>
\* for the default scope, ssl/<host_id>/<half> for a host
SslKey(instance_name, host_id, half) ==
    <<"rpaas", "/">> \o instance_name \o <<"/", "ssl", "/">>
        \o (IF host_id = None THEN <<>> ELSE host_id \o <<"/">>) \o <<half>>

\* the key of the status of a server in the namespace layout
StatusKey(instance_name, server_name) ==
    <<"rpaas", "/">> \o instance_name \o <<"/", "status", "/">> \o server_name

\* C14: get_certificate(i, host_id) raises CertificateNotFoundError whenever the
\* cert key or the key key of the addressed scope is absent, also when exactly
\* one of the two is present, and otherwise returns the two stored values.
C14_GetCertificate ==
    last.op = "get_certificate"
    => LET cert == SslKey(last.instance_name, last.host_id, "cert")
           key == SslKey(last.instance_name, last.host_id, "key")
       IN /\ last.raised <=> (cert \notin DOMAIN kv \/ key \notin DOMAIN kv)
          /\ ~last.raised => last.result = <<kv[cert], kv[key]>>
          /\ kv = last.pre

\* get_certificate raised for a host whose cert half alone is stored
C14_Witness ==
    /\ last.op = "get_certificate"
    /\ last.host_id # None
    /\ SslKey(last.instance_name, last.host_id, "cert") \in DOMAIN kv
    /\ SslKey(last.instance_name, last.host_id, "key") \notin DOMAIN kv
    /\ last.raised

\* a text with every "\r" that a "\n" follows left out
RECURSIVE CrLfToLf(_)
CrLfToLf(text) ==
    IF text = <<>> THEN <<>>
    ELSE IF Len(text) > 1 /\ text[1] = "\r" /\ text[2] = "\n"
         THEN <<"\n">> \o CrLfToLf(Tail(Tail(text)))
         ELSE <<text[1]>> \o CrLfToLf(Tail(text))

HasCrLf(text) ==
    \E i \in 1..(Len(text) - 1) : text[i] = "\r" /\ text[i + 1] = "\n"

\* C15: certificate CRLF normalization.  set_certificate(i, cert, key, h)
\* followed by get_certificate(i, h) returns cert and key with every CR LF pair
\* replaced by LF; a text without a CR LF pair is returned unchanged.
C15_CrLfNormalization ==
    [][ ( /\ last.op = "set_certificate"
          /\ last'.op = "get_certificate"
          /\ last'.instance_name = last.instance_name
          /\ last'.host_id = last.host_id )
        => /\ ~last'.raised
           /\ last'.result = <<CrLfToLf(last.cert_data), CrLfToLf(last.key_data)>>
           /\ ~HasCrLf(last.cert_data) => last'.result[1] = last.cert_data
           /\ ~HasCrLf(last.key_data) => last'.result[2] = last.key_data ]_vars

\* the certificate of a host, set with two CR LF pairs in the cert and none in
\* the key, was read back
C15_Witness ==
    /\ last.op = "get_certificate"
    /\ last.host_id # None
    /\ ~last.raised
    /\ last.result = << <<"x", "\n", "x", "\n">>, <<"\n", "\r">> >>

\* C31: after set_certificate(i, cert, key, h), for every input, neither
\* stored half holds a CR immediately followed by a LF: the stored text is
\* LF-only.
C31_StoredLfOnly ==
    last.op = "set_certificate"
    => /\ ~HasCrLf(kv[SslKey(last.instance_name, last.host_id, "cert")])
       /\ ~HasCrLf(kv[SslKey(last.instance_name, last.host_id, "key")])

\* the callers whose remove_node call has asked the agent to force_leave the
\* server: the node has left
HasLeft(caller) ==
    /\ calls[caller].pc # "not called"
    /\ \E n \in 1..Len(calls[caller].issued) : calls[caller].issued[n] = "agent.force_leave"

\* C32: ordering in remove_node.  The delete of the status key of the server
\* and the recursive delete of the certificates of the host are both issued
\* before the force_leave request: in no state has the node left because of a
\* call while the status key or a certificate of the host of that call is
\* still there.
C32_DeletesBeforeLeave ==
    \A caller \in Callers :
        HasLeft(caller)
        => /\ StatusKey(calls[caller].instance_name, calls[caller].server_name)
                \notin DOMAIN kv
           /\ SslKey(calls[caller].instance_name, calls[caller].host_id, "cert")
                \notin DOMAIN kv
           /\ SslKey(calls[caller].instance_name, calls[caller].host_id, "key")
                \notin DOMAIN kv
           /\ calls[caller].issued
                = <<"kv.delete status", "kv.delete ssl", "agent.force_leave">>

\* a node has left through a call that found its status key and the
\* certificate of its host, while the other call has issued no request yet
C32_Witness ==
    /\ HasLeft("caller1")
    /\ calls["caller2"].pc = "remove_node"
    /\ calls["caller2"].issued = <<>>
    /\ calls["caller2"].server_name # calls["caller1"].server_name
    /\ calls["caller2"].host_id # calls["caller1"].host_id
    /\ StatusKey(calls["caller2"].instance_name, calls["caller2"].server_name) \in DOMAIN kv
    /\ SslKey(calls["caller2"].instance_name, calls["caller2"].host_id, "cert") \in DOMAIN kv

\* C33: remove_node never deletes the default certificate of the instance
\* (ssl/cert, ssl/key) nor the certificates of other hosts, whatever host id it
\* is given, an empty or missing one included.
C33_RemoveNodeKeepsOtherCertificates ==
    last.op = "remove_node"
    => LET own == IF last.host_id = None THEN {}
                  ELSE {SslKey(last.instance_name, last.host_id, "cert"),
                        SslKey(last.instance_name, last.host_id, "key")}
       IN \A scope \in CertScopes, half \in {"cert", "key"} :
             LET k == SslKey(scope[1], scope[2], half)
             IN (k \in DOMAIN last.pre /\ k \notin own)
                => (k \in DOMAIN kv /\ kv[k] = last.pre[k])

\* C38: for every interleaving of set_certificate and get_certificate calls on
\* one (instance, host id) at the KV requests, get_certificate raises
\* CertificateNotFoundError or returns a cert and a key that the same
\* set_certificate call wrote.
C38_CertificateOfOneCall ==
    (last.op = "get_certificate" /\ ~last.raised)
    => \E pair \in CertPairs :
          last.result = <<CrLfToLf(pair[1]), CrLfToLf(pair[2])>>

\* the certificate of a scope as get_certificate reads it
CertificateOf(store, scope) == get_certificate(store, scope[1], scope[2])

\* C16: delete_certificate(i) removes only instance i's default ssl/cert and
\* ssl/key: every host-scoped certificate of i and every certificate of any
\* other instance stays readable with an unchanged value; and a certificate set
\* under a host id is never returned by get_certificate without a host id.
C16_DeleteCertificateDefaultOnly ==
    /\ last.op = "delete_certificate"
       => /\ SslKey(last.instance_name, None, "cert") \notin DOMAIN kv
          /\ SslKey(last.instance_name, None, "key") \notin DOMAIN kv
          /\ SameExcept(kv, last.pre, {SslKey(last.instance_name, None, "cert"),
                                       SslKey(last.instance_name, None, "key")})
          /\ \A scope \in CertScopes \ {<<last.instance_name, None>>} :
                CertificateOf(kv, scope) = CertificateOf(last.pre, scope)
    /\ (last.op = "set_certificate" /\ last.host_id # None)
       => CertificateOf(kv, <<last.instance_name, None>>)
            = CertificateOf(last.pre, <<last.instance_name, None>>)

\* delete_certificate removed the default certificate of an instance that has
\* the certificate of a host, while another instance has a certificate
C16_Witness ==
    /\ last.op = "delete_certificate"
    /\ ~CertificateOf(last.pre, <<last.instance_name, None>>).raised
    /\ CertificateOf(kv, <<last.instance_name, None>>).raised
    /\ \E scope \in CertScopes :
          scope[1] = last.instance_name /\ scope[2] # None
          /\ ~CertificateOf(kv, scope).raised
    /\ \E scope \in CertScopes :
          scope[1] # last.instance_name /\ ~CertificateOf(kv, scope).raised

\* C17: remove_node(i, s, h) with a non-empty host id h deletes status/s of
\* instance i and every key under ssl/h/ of instance i, and leaves every other
\* key untouched: the status of every other server, the certificates of every
\* other host id, also of one that starts with h, and the default ssl/cert and
\* ssl/key.
C17_RemoveNode ==
    (last.op = "remove_node" /\ last.host_id # None)
    => LET removed == {StatusKey(last.instance_name, last.server_name),
                       SslKey(last.instance_name, last.host_id, "cert"),
                       SslKey(last.instance_name, last.host_id, "key")}
       IN /\ DOMAIN kv = (DOMAIN last.pre) \ removed
          /\ \A k \in DOMAIN kv : kv[k] = last.pre[k]
          /\ last.force_leave = last.server_name

\* remove_node removed the status of a server and the certificate of host h,
\* and left the status of the other server, the certificate of host h2 and the
\* default certificate
C17_Witness ==
    /\ last.op = "remove_node"
    /\ last.host_id = <<"h">>
    /\ last.server_name = <<"s1">>
    /\ StatusKey(last.instance_name, <<"s1">>) \in DOMAIN last.pre
    /\ SslKey(last.instance_name, <<"h">>, "cert") \in DOMAIN last.pre
    /\ SslKey(last.instance_name, <<"h">>, "key") \in DOMAIN last.pre
    /\ StatusKey(last.instance_name, <<"s1">>) \notin DOMAIN kv
    /\ SslKey(last.instance_name, <<"h">>, "cert") \notin DOMAIN kv
    /\ SslKey(last.instance_name, <<"h">>, "key") \notin DOMAIN kv
    /\ StatusKey(last.instance_name, <<"s1", "2">>) \in DOMAIN kv
    /\ SslKey(last.instance_name, <<"h", "2">>, "cert") \in DOMAIN kv
    /\ SslKey(last.instance_name, None, "cert") \in DOMAIN kv

-----------------------------------------------------------------------------
(* Locations *)

\* the key of a location in the namespace layout: locations/ROOT for the path
\* "/", else locations/ and the path with "___" for each "/"
LocationKey(instance_name, path) ==
    <<"rpaas", "/">> \o instance_name \o <<"/", "locations", "/">>
        \o ( CASE path = <<"/">> -> <<"ROOT">>
               [] path = <<"/", "x", "/">> -> <<"___", "x", "___">> )

\* a content without the whitespace around it
Stripped(content) ==
    CASE content = <<"x">> -> <<"x">>
      [] content = <<" ", "x", " ", "\n">> -> <<"x">>

\* the host of a destination
HostOf(destination) ==
    CASE destination = <<"http://", "app", ":", "80">> -> <<"app">>

DefaultUpstream == <<"rpaas_default_upstream">>

IsGeneratedWrite(call) ==
    /\ call.op = "write_location"
    /\ call.content = None
    /\ ~call.raised

\* C18: write_location(i, "/", destination="http://app:80") with no content
\* stores at the location key generated text whose upstream is app:80, and
\* afterwards list_upstream(i, "app:80"), or list_upstream of the default
\* upstream name in bind mode, returns {"app:80"}.
C18_WriteLocationKeepsPort ==
    ( /\ IsGeneratedWrite(last)
      /\ last.path = <<"/">>
      /\ last.destination = <<"http://", "app", ":", "80">>
      /\ ~last.router_mode )
    => LET upstream == IF last.bind_mode THEN DefaultUpstream
                       ELSE <<"app", ":", "80">>
       IN /\ kv[LocationKey(last.instance_name, last.path)]
               = generate_host_config(last.path, last.destination,
                                      IF last.bind_mode THEN DefaultUpstream
                                      ELSE <<"app", ":", "80">>,
                                      last.router_mode, last.https_only)
          /\ list_upstream(kv, last.instance_name, upstream) = {<<"app", ":", "80">>}

\* C19: write_location with non-empty content stores at the location key exactly
\* the content stripped of leading and trailing whitespace, whatever the
\* destination is, and creates or changes no upstream key.
C19_WriteLocationContent ==
    (last.op = "write_location" /\ last.content # None)
    => /\ ~last.raised
       /\ kv = kv_put(last.pre, LocationKey(last.instance_name, last.path),
                      Stripped(last.content))

\* content with whitespace around it was written, with a destination given,
\* over a generated location, and no upstream key was created
C19_Witness ==
    /\ last.op = "write_location"
    /\ last.content = <<" ", "x", " ", "\n">>
    /\ last.destination # None
    /\ last.path # <<"/">>
    /\ LocationKey(last.instance_name, last.path) \in DOMAIN last.pre
    /\ last.pre[LocationKey(last.instance_name, last.path)] # <<"x">>
    /\ kv[LocationKey(last.instance_name, last.path)] = <<"x">>
    /\ \A k \in DOMAIN kv : k = LocationKey(last.instance_name, last.path)

\* C20: write_location without content.  In bind mode the upstream named in the
\* generated text and used for the registration of the server is
\* rpaas_default_upstream, and the host of the destination is added to it;
\* otherwise the upstream is named after the host of the destination.  In
\* router mode no upstream key is created or modified.
C20_WriteLocationModes ==
    IsGeneratedWrite(last)
    => LET host == HostOf(last.destination)
           upstream == IF last.bind_mode THEN DefaultUpstream ELSE host
           location == LocationKey(last.instance_name, last.path)
       IN /\ kv[location] = generate_host_config(last.path, last.destination, upstream,
                                                 last.router_mode, last.https_only)
          /\ last.router_mode => SameExcept(kv, last.pre, {location})
          /\ ~last.router_mode
             => /\ list_upstream(kv, last.instance_name, upstream)
                     = list_upstream(last.pre, last.instance_name, upstream) \cup {host}
                /\ SameExcept(kv, last.pre,
                              {location, _upstream_key(last.instance_name, upstream)})

\* a location was written in bind mode: the default upstream was created with
\* the host of the destination, beside the upstream named after the host
C20_Witness ==
    /\ IsGeneratedWrite(last)
    /\ last.bind_mode
    /\ ~last.router_mode
    /\ _upstream_key(last.instance_name, DefaultUpstream) \notin DOMAIN last.pre
    /\ list_upstream(last.pre, last.instance_name, HostOf(last.destination))
         = {HostOf(last.destination)}
    /\ list_upstream(kv, last.instance_name, DefaultUpstream)
         = {HostOf(last.destination)}

\* C24: re-adding after empty.  When the last server of an upstream was removed,
\* so that its key holds the empty sentinel pair, a later
\* add_server_upstream(i,u,s) of an address or a non-empty list of addresses makes list_upstream(i,u) return exactly the
\* normalized servers of s, and the stored value is the frame of those servers
\* only.
C24_AddAfterEmptied ==
    ( /\ IsUpstreamCall(last, "add_server_upstream")
      /\ IsAddresses(last.server)
      /\ HostPorts(last.server) # {}
      /\ CallUpstreamKey(last) \in DOMAIN last.pre
      /\ last.pre[CallUpstreamKey(last)] = EmptyUpstreamBlock )
    => /\ CallServers(kv, last) = HostPorts(last.server)
       /\ CallUpstreamKey(last) \in DOMAIN kv
       /\ kv[CallUpstreamKey(last)] \in UpstreamBlocks(HostPorts(last.server))

\* a server was added to an upstream whose key held the empty sentinel pair
C24_Witness ==
    /\ IsUpstreamCall(last, "add_server_upstream")
    /\ IsAddresses(last.server)
    /\ CallUpstreamKey(last) \in DOMAIN last.pre
    /\ last.pre[CallUpstreamKey(last)] = EmptyUpstreamBlock
    /\ CallServers(kv, last) # {}

\* the destinations stored under the key of a source: none without the key
StoredDestinations(store, instance_name, src) ==
    LET key == _acl_key(instance_name, _normalize_acl_src(src))
    IN IF key \in DOMAIN store THEN Range(split(store[key], ",")) ELSE {}

\* C30: store_acl_network(i, src, dst) writes only the key of src, and the
\* destinations it stores are exactly those the key of src held before and
\* dst: the destinations of another source, also of one whose encoded form
\* starts with the encoded form of src, are not merged into the entry of src.
C30_StoreAclOwnEntryOnly ==
    last.op = "store_acl_network"
    => /\ SameExcept(kv, last.pre,
                     {_acl_key(last.instance_name, _normalize_acl_src(last.src))})
       /\ StoredDestinations(kv, last.instance_name, last.src)
            = StoredDestinations(last.pre, last.instance_name, last.src) \cup {last.dst}

-----------------------------------------------------------------------------
(* Destroying an instance *)

\* the instance a key belongs to: the second segment of the key
InstanceOfKey(key) == split(key, "/")[2]

\* what follows "<service>/<instance>/" in each key of an instance in a store
KeysOfInstance(store, instance_name) ==
    {SubSeq(k, Len(instance_name) + 4, Len(k)) :
        k \in {x \in DOMAIN store : InstanceOfKey(x) = instance_name}}

\* C25: destroy_instance(i) removes every key under <service>/i/ (locations,
\* blocks, upstreams, healthcheck, certificates, swap pointer) and no key of
\* any other instance, also of an instance whose name starts with i.
C25_DestroyInstance ==
    last.op = "destroy_instance"
    => /\ DOMAIN kv = {k \in DOMAIN last.pre : InstanceOfKey(k) # last.instance_name}
       /\ \A k \in DOMAIN kv : kv[k] = last.pre[k]

\* an instance that had keys of all the categories was destroyed, and the keys
\* of all the categories of an instance whose name starts with its name are
\* still there
C25_Witness ==
    LET categories == { <<"healthcheck">>, <<"locations", "/", "ROOT">>,
                        <<"upstream", "/", "app">>, <<"blocks", "/", "http", "/", "ROOT">>,
                        <<"ssl", "/", "cert">>, <<"ssl", "/", "key">>, <<"swap">> }
    IN /\ last.op = "destroy_instance"
       /\ last.instance_name = <<"a">>
       /\ KeysOfInstance(last.pre, <<"a">>) = categories
       /\ KeysOfInstance(kv, <<"a">>) = {}
       /\ KeysOfInstance(kv, <<"a", "b">>) = categories

\* the two calls did not overlap: one began after the other had returned
OneAfterTheOther ==
    \E caller \in Callers :
        /\ calls[caller].pc # "not called"
        /\ calls[caller].after # {}

\* C26: lost-update race of add_server_upstream.  When two add_server_upstream
\* calls on the same (i,u), interleaved at the KV requests, have both returned,
\* the set holds the server of the call that wrote last and no server that
\* neither call added; when the two calls ran one after the other, it holds the
\* servers of both.  (That two overlapping calls for different servers can
\* both return while the set holds only one of them is C26_Witness.)
C26_LostUpdate ==
    (\A caller \in Callers : calls[caller].pc = "returned")
    => LET servers == list_upstream(kv, last.instance_name, last.upstream_name)
           added == UNION {HostPorts(calls[caller].server) : caller \in Callers}
       IN /\ HostPorts(last.server) \subseteq servers
          /\ servers \subseteq added
          /\ OneAfterTheOther => servers = added

\* two overlapping calls for different servers have both returned, and the set
\* holds the server of one of them only
C26_Witness ==
    /\ \A caller \in Callers : calls[caller].pc = "returned"
    /\ ~OneAfterTheOther
    /\ HostPorts(calls["caller1"].server) # HostPorts(calls["caller2"].server)
    /\ Cardinality(list_upstream(kv, last.instance_name, last.upstream_name)) = 1

\* C34: location key derivation is injective over paths: two different paths
\* of an instance never have the same key, so write_location or
\* remove_location on one path leaves the location stored for every other
\* path as it was.
C34_LocationKeyInjective ==
    last.op \in {"write_location", "remove_location"}
    => \A q \in KeyPaths \ {last.path} :
          /\ _location_key(last.instance_name, q)
               # _location_key(last.instance_name, last.path)
          /\ kv_get(kv, _location_key(last.instance_name, q))
               = kv_get(last.pre, _location_key(last.instance_name, q))

-----------------------------------------------------------------------------
(* Framing *)

\* a text from its first to its last character that is not whitespace
Trimmed(text) ==
    LET marks == {i \in 1..Len(text) : text[i] \notin {" ", "\n", "\r"}}
    IN IF marks = {} THEN <<>>
       ELSE SubSeq(text, CHOOSE i \in marks : \A j \in marks : i <= j,
                         CHOOSE i \in marks : \A j \in marks : i >= j)

BeginSentinel(label) == <<"## Begin custom RpaaS ">> \o label \o <<" block ##">>

EndSentinel(label) == <<"## End custom RpaaS ">> \o label \o <<" block ##">>

LuaBeginSentinel(name) == <<"-- Begin custom RpaaS ">> \o name \o <<" lua module --">>

LuaEndSentinel(name) == <<"-- End custom RpaaS ">> \o name \o <<" lua module --">>

\* C21: framing round-trip law.  For every content c and label l, removing the
\* frame from the framed value of c under l returns c stripped of leading and
\* trailing whitespace, also when c is empty and when c holds text equal to a
\* sentinel line.
C21_FramingRoundTrip ==
    (last.op = "_set_header_footer" /\ last.remove)
    => last.result = Trimmed(last.content)

\* C22 as stated: for each framed category, framing empty or absent content
\* yields the begin sentinel, one newline and the end sentinel, with no blank
\* line between the two.
C22_EmptyFrameNoBlankLine ==
    /\ ( /\ last.op = "_set_header_footer"
         /\ ~last.remove
         /\ last.content = <<>> )
       => last.result = BeginSentinel(last.block_name) \o <<"\n">>
                          \o EndSentinel(last.block_name)
    /\ ( /\ last.op = "_lua_module_escope"
         /\ last.content = <<>> )
       => last.result = LuaBeginSentinel(last.lua_module_name) \o <<"\n">>
                          \o LuaEndSentinel(last.lua_module_name)

\* C22 amended: for a block and an upstream, framing empty or absent content
\* yields the begin sentinel, one newline and the end sentinel; for a lua
\* module it yields the begin sentinel, a newline, an empty line and the end
\* sentinel.
C22_EmptyFrames ==
    /\ ( /\ last.op = "_set_header_footer"
         /\ ~last.remove
         /\ last.content = <<>> )
       => last.result = BeginSentinel(last.block_name) \o <<"\n">>
                          \o EndSentinel(last.block_name)
    /\ ( /\ last.op = "_lua_module_escope"
         /\ last.content = <<>> )
       => last.result = LuaBeginSentinel(last.lua_module_name) \o <<"\n", "\n">>
                          \o LuaEndSentinel(last.lua_module_name)

\* the frame of a lua module without content was made
C22_Witness ==
    /\ last.op = "_lua_module_escope"
    /\ last.content = <<>>
    /\ Len(last.result) = 8

-----------------------------------------------------------------------------
(* Blocks *)

BlockKey(call) == service_name \o <<"/">> \o call.instance_name
                    \o <<"/", "blocks", "/">> \o call.block_name \o <<"/", "ROOT">>

\* the contents list_blocks(instance_name) gives for a block name
ListedContents(store, instance_name, block_name) ==
    LET block_list == list_blocks(store, instance_name, None)
    IN {block_list[i].content : i \in {j \in 1..Len(block_list) :
                                            block_list[j].block_name = block_name}}

\* the number of entries list_blocks(instance_name) gives for a block name
ListedTimes(store, instance_name, block_name) ==
    LET block_list == list_blocks(store, instance_name, None)
    IN Cardinality({j \in 1..Len(block_list) : block_list[j].block_name = block_name})

\* C23: remove_block never deletes the key: after it blocks/<b>/ROOT is present
\* and holds the empty sentinel pair, and the block is not listed.  After a
\* write_block or remove_block, list_blocks(i) lists the block written once,
\* with the stripped content just written, when that content is non-empty and
\* not at all otherwise, and lists every other block as before.
C23_RemoveBlockAndListing ==
    last.op \in {"write_block", "remove_block"}
    => /\ last.op = "remove_block"
          => /\ BlockKey(last) \in DOMAIN kv
             /\ kv[BlockKey(last)] = BeginSentinel(last.block_name) \o <<"\n">>
                                       \o EndSentinel(last.block_name)
             /\ SameExcept(kv, last.pre, {BlockKey(last)})
       /\ ListedContents(kv, last.instance_name, last.block_name)
            = {Trimmed(last.content)} \ {<<>>}
       /\ ListedTimes(kv, last.instance_name, last.block_name)
            = IF Trimmed(last.content) = <<>> THEN 0 ELSE 1
       /\ \A other \in WrittenBlockNames \ {last.block_name} :
            /\ ListedContents(kv, last.instance_name, other)
                 = ListedContents(last.pre, last.instance_name, other)
            /\ ListedTimes(kv, last.instance_name, other)
                 = ListedTimes(last.pre, last.instance_name, other)

-----------------------------------------------------------------------------
(* Lua modules *)

LuaKey(call) == service_name \o <<"/">> \o call.instance_name \o <<"/", "lua_module", "/">>
                  \o call.lua_module_type \o <<"/">> \o call.lua_module_name

\* C27: remove_lua(i, name, type) never deletes the key: after it the key
\* lua_module/<type>/<name> is present and holds the begin sentinel of the
\* module, an empty line and the end sentinel, and no other key has changed.
C27_RemoveLuaKeepsKey ==
    last.op = "remove_lua"
    => /\ LuaKey(last) \in DOMAIN kv
       /\ kv[LuaKey(last)] = LuaBeginSentinel(last.lua_module_name) \o <<"\n", "\n">>
                               \o LuaEndSentinel(last.lua_module_name)
       /\ SameExcept(kv, last.pre, {LuaKey(last)})

\* a module that was never written was removed, and its key is there
C27_Witness ==
    /\ last.op = "remove_lua"
    /\ LuaKey(last) \notin DOMAIN last.pre
    /\ LuaKey(last) \in DOMAIN kv

\* C35: list_lua_modules(i) returns one entry for every module written with
\* write_lua(i, name, type, content), and the module_name of that entry is the
\* name the module was written under, not its type.
C35_ListLuaModules ==
    last.op = "write_lua"
    => LET module_list == list_lua_modules(kv, last.instance_name)
           written == {k \in DOMAIN kv :
                          startswith(k, service_name \o <<"/">> \o last.instance_name
                                          \o <<"/", "lua_module", "/">>)}
       IN /\ Len(module_list) = Cardinality(written)
          /\ \E n \in 1..Len(module_list) :
                /\ module_list[n].module_name = last.lua_module_name
                /\ module_list[n].content = kv[LuaKey(last)]

(***************************************************************************)
(* Team quota: Manager.new_instance and the quota collection               *)
(***************************************************************************)

\* the quota of a team's document that _find_team_quota inserts
DefaultQuota == 5

\* the largest quota a team was given with set_team_quota before the calls
MaxQuota == 2

\* the team of the calls, and the instance names they ask for
QuotaTeam == <<"t">>

QuotaNames == { <<"a">>, <<"b">>, <<"c">> }

\* collection.find_one({'_id': teamname})
find_one(docs, teamname) ==
    IF teamname \in DOMAIN docs THEN Some(docs[teamname]) ELSE None

\* the document _find_team_quota makes for a team that has none
default_quota_document == [used |-> <<>>, quota |-> DefaultQuota]

\* collection.insert(quota) of a document whose _id is not in the collection
insert(docs, teamname, document) ==
    [t \in DOMAIN docs \cup {teamname} |->
        IF t = teamname THEN document ELSE docs[t]]

\* $addToSet: the value is appended unless the array has it
addToSet(used, servicename) ==
    IF \E i \in 1..Len(used) : used[i] = servicename
    THEN used
    ELSE Append(used, servicename)

\* increment_quota without the test of the used list in the query
increment_quota_unconditional(docs, teamname, prev_used, servicename) ==
    IF teamname \in DOMAIN docs
    THEN [docs |-> [docs EXCEPT ![teamname].used = addToSet(@, servicename)],
          updated |-> TRUE]
    ELSE [docs |-> docs, updated |-> FALSE]

\* increment_quota: one update of the document whose _id is the team and
\* whose used list equals prev_used; the result says whether one matched
increment_quota(docs, teamname, prev_used, servicename) ==
    IF teamname \in DOMAIN docs /\ docs[teamname].used = prev_used
    THEN [docs |-> [docs EXCEPT ![teamname].used = addToSet(@, servicename)],
          updated |-> TRUE]
    ELSE [docs |-> docs, updated |-> FALSE]

\* the quota collection before the calls: no document of the team, or the
\* document of a team whose quota was set and that has used nothing yet
InitQuota ==
    /\ kv = EmptyStore
    /\ last = NoCall
    /\ calls = [caller \in Callers |-> [pc |-> "not called"]]
    /\ db \in {NoDocuments} \cup
              { insert(NoDocuments, QuotaTeam, [used |-> <<>>, quota |-> quota]) :
                  quota \in 0..MaxQuota }

\* the call of a caller ends
NewInstanceEnds(caller, raised) ==
    /\ calls' = [calls EXCEPT ![caller] =
                  [pc |-> IF raised = None THEN "returned" ELSE "raised",
                   op |-> "new_instance", name |-> calls[caller].name]]
    /\ last' = [op |-> "new_instance", name |-> calls[caller].name,
                team |-> QuotaTeam, raised |-> raised]

\* new_instance with what find_team_quota returned: the quota test
QuotaTested(caller, used, quota) ==
    IF Len(used) >= quota
    THEN NewInstanceEnds(caller, Some("QuotaExceededError"))
    ELSE /\ calls' = [calls EXCEPT ![caller] =
                        [pc |-> "increment_quota", op |-> "new_instance",
                         name |-> calls[caller].name, used |-> used]]
         /\ UNCHANGED last

\* a caller calls new_instance(name, team)
BeginNewInstance(caller) ==
    /\ Idle(caller)
    /\ \E name \in QuotaNames :
          calls' = [calls EXCEPT ![caller] =
                      [pc |-> "find_one", op |-> "new_instance", name |-> name]]
    /\ UNCHANGED <<kv, last, db>>

\* _find_team_quota: the find_one of the team's document; with a document,
\* find_team_quota returns its used list and quota and new_instance tests them
FindOneTeamQuota(caller) ==
    /\ calls[caller].pc = "find_one"
    /\ LET quota == find_one(db, QuotaTeam)
       IN  IF quota = None
           THEN /\ calls' = [calls EXCEPT ![caller].pc = "insert"]
                /\ UNCHANGED last
           ELSE QuotaTested(caller, quota[1].used, quota[1].quota)
    /\ UNCHANGED <<kv, db>>

\* _find_team_quota: the insert of the default document; the _id is unique,
\* so the insert raises when another call has inserted the team's document
InsertTeamQuota(caller) ==
    /\ calls[caller].pc = "insert"
    /\ IF QuotaTeam \in DOMAIN db
       THEN /\ NewInstanceEnds(caller, Some("DuplicateKeyError"))
            /\ UNCHANGED db
       ELSE /\ db' = insert(db, QuotaTeam, default_quota_document)
            /\ QuotaTested(caller, default_quota_document.used,
                           default_quota_document.quota)
    /\ UNCHANGED kv

\* new_instance: increment_quota with the used list the call has read; the
\* call raises when no document was updated
IncrementQuota(caller) ==
    /\ calls[caller].pc = "increment_quota"
    /\ LET result == increment_quota(db, QuotaTeam, calls[caller].used,
                                     calls[caller].name)
       IN  /\ db' = result.docs
           /\ NewInstanceEnds(caller,
                  IF result.updated THEN None ELSE Some("Exception"))
    /\ UNCHANGED kv

NextQuota ==
    \E caller \in Callers :
        \/ BeginNewInstance(caller)
        \/ FindOneTeamQuota(caller)
        \/ InsertTeamQuota(caller)
        \/ IncrementQuota(caller)

SpecQuota == InitQuota /\ [][NextQuota]_vars

\* the document of the team has no more names than its quota
WithinQuota ==
    \A teamname \in DOMAIN db : Len(db[teamname].used) <= db[teamname].quota

\* the step of a caller whose call is at the request pc
StepAt(caller, pc) ==
    calls[caller].pc = pc /\ calls'[caller].pc # pc

\* C40: in every interleaving of new_instance calls of one team the used list
\* of the team never has more names than the team's quota; the
\* increment_quota of a call whose used list is no longer the stored one
\* changes nothing and the call raises; and a call that finds the used list
\* at the quota raises QuotaExceededError and changes nothing.
C40_QuotaNeverExceeded ==
    /\ []WithinQuota
    /\ [][\A caller \in Callers :
            /\ (StepAt(caller, "increment_quota")
                  /\ calls[caller].used # db[QuotaTeam].used)
               => /\ db' = db
                  /\ calls'[caller].pc = "raised"
                  /\ last'.raised = Some("Exception")
            /\ (StepAt(caller, "find_one")
                  /\ QuotaTeam \in DOMAIN db
                  /\ Len(db[QuotaTeam].used) >= db[QuotaTeam].quota)
               => /\ db' = db
                  /\ calls'[caller].pc = "raised"
                  /\ last'.raised = Some("QuotaExceededError")]_vars

\* a call has failed on a used list that another call had changed, and the
\* team is at its quota
C40_Witness ==
    /\ last.op = "new_instance"
    /\ last.raised = Some("Exception")
    /\ QuotaTeam \in DOMAIN db
    /\ db[QuotaTeam].quota > 0
    /\ Len(db[QuotaTeam].used) = db[QuotaTeam].quota

====
